---- MODULE Spec2Model ----
(***************************************************************************)
(* The resource-watch synchronization engine of the ACI policy controller  *)
(* (aci_policy_controller.py, class Controller): the leadership gate of    *)
(* run(), one worker thread per resource type running _manage_resource,    *)
(* the bounded event queue, and the read_updates loop that dispatches each *)
(* queued update to its handler.                                           *)
(***************************************************************************)
EXTENDS Naturals, Sequences, FiniteSets, TLC

\* ------------------------------------------------------------ bounds
\* Capacity of the event queue (MAX_QUEUE_SIZE lives in constants.k8s).
MAX_QUEUE_SIZE == 2

\* The number of add_handler calls made on a registry under construction.
MaxCalls == 3

\* ------------------------------------------------------------ values
\* Python's None, for cursors and for the update slots.
None == <<>>
\* No exception is being handled by the worker.
NoExc == "none"
\* read_updates has logged nothing of the update it holds, or holds none.
NoLog == "none"
\* _process_update has no handler call in progress.
NoHandler == "none"

TYPE_ADDED == "ADDED"
TYPE_MODIFIED == "MODIFIED"
TYPE_DELETED == "DELETED"
TYPE_ERROR == "ERROR"
\* An event type the API server can send for which __init__ adds no handler.
TYPE_BOOKMARK == "BOOKMARK"

RESOURCE_TYPE_NETWORK_POLICY == "NetworkPolicy"
RESOURCE_TYPE_NAMESPACE == "Namespace"
RESOURCE_TYPE_POD == "Pod"

\* start_workers starts one thread per entry of its resources list; the model
\* runs the worker threads of two of the three types.
WorkerTypes == {RESOURCE_TYPE_NAMESPACE, RESOURCE_TYPE_POD}

\* The instances of a redundant deployment; Self is the one whose engine is
\* modelled in full (its HOSTNAME), the other is a peer seen through the gate.
Self == "h1"
Instances == {"h1", "h2"}

\* Exceptions _is_leader can raise: requests' ConnectionError, anything else.
PollErrors == {"ConnectionError", "Exception"}
PollOutcomes == Instances \cup PollErrors
\* The instance has not called _is_leader yet.
NoPoll == "none"

\* ------------------------------------------------------------ the API server
\* A resource as the API server serialises it; v is its resourceVersion. The
\* tokens are opaque to the controller; the model tags them with the
\* collection that issued them.
Doc(t, name, v) == [kind |-> t, name |-> name, resourceVersion |-> <<t, v>>]

\* The objects of collection t the model's API server can report: two pods,
\* one namespace.
Docs(t) ==
    IF t = RESOURCE_TYPE_POD
    THEN {Doc(t, "a", 1), Doc(t, "b", 2)}
    ELSE {Doc(t, "a", 1)}

\* The resourceVersion tokens the API server returns for collection t.
Cursors(t) == {d.resourceVersion : d \in Docs(t)}

\* What metadata.get("resourceVersion") of a list response for t can be: the
\* latest token of the collection, or None when the body carries none.
ListCursors(t) == {None, <<t, IF t = RESOURCE_TYPE_POD THEN 2 ELSE 1>>}

RECURSIVE Arrangements(_)
\* The sequences without repetition of elements of S.
Arrangements(S) ==
    {<<>>} \cup UNION {{<<x>> \o s : s \in Arrangements(S \ {x})} : x \in S}

\* An object of collection t serialised without metadata.name.
Nameless(t) == [kind |-> t, resourceVersion |-> <<t, 1>>]

\* The "items" arrays a list response for t can carry: the pods in any order;
\* no namespace, or namespace "a", or an item without name.
ListBodies(t) ==
    IF t = RESOURCE_TYPE_POD
    THEN Arrangements(Docs(t))
    ELSE {<<>>, <<Doc(t, "a", 1)>>, <<Nameless(t)>>}

\* The event lines (type, object) a watch stream of t can yield, apart from
\* ERROR lines: pod "a" is created and pod "b" deleted; namespace "a" changes,
\* and the stream of namespaces carries a line of a type without handler.
WatchLines(t) ==
    IF t = RESOURCE_TYPE_POD
    THEN {<<TYPE_ADDED, Doc(t, "a", 1)>>, <<TYPE_DELETED, Doc(t, "b", 2)>>}
    ELSE {<<TYPE_MODIFIED, Doc(t, "a", 1)>>, <<TYPE_BOOKMARK, Doc(t, "a", 1)>>}

\* The ERROR line a watch stream of t can yield. Its object is given the
\* fields of a resource of t, so that nothing but the test of the line's type
\* stands between it and the queue.
ErrorLines(t) == {<<TYPE_ERROR, Doc(t, "a", 1)>>}

\* An object of collection t serialised without metadata.resourceVersion.
Cursorless(t) == [kind |-> t, name |-> "a"]

\* The event lines a watch stream of t can yield whose object carries no
\* resourceVersion: a change of namespace "a".
CursorlessLines(t) ==
    IF t = RESOURCE_TYPE_NAMESPACE THEN {<<TYPE_MODIFIED, Cursorless(t)>>} ELSE {}

\* The event lines a watch stream of t can yield whose object is of another
\* kind than t: on the stream of pods, an object of kind Namespace, with a
\* resourceVersion of that stream.
StrayLines(t) ==
    IF t = RESOURCE_TYPE_POD
    THEN {<<TYPE_ADDED, [kind |-> RESOURCE_TYPE_NAMESPACE, name |-> "a", resourceVersion |-> <<t, 1>>]>>}
    ELSE {}

\* The lines of a watch stream of t whose documents are not what the list and
\* watch calls of t are documented to return.
OddLines(t) == ErrorLines(t) \cup CursorlessLines(t) \cup StrayLines(t)

VARIABLES
    leader_elect,      \* self._leader_elect
    leader,            \* the name the election endpoint currently reports
    mainpc,            \* per instance: where its main thread is in run()
    lpc,               \* per instance: "none" or "poll", the _watch_leadership thread
    polled,            \* per instance: what its last call of _is_leader came to
    worker_threads,    \* per worker type: threads of this process running _manage_resource for it
    handlers,          \* self._handlers
    calls,             \* the add_handler calls made so far: (resource_type, event_type, handler)
    event_queue,       \* self._event_queue
    unfinished_tasks,  \* self._event_queue.unfinished_tasks: puts not yet task_done
    dpc,               \* position of read_updates: get, handler, task_done, ...
    update,            \* the update whose handler read_updates is running, else None
    called,            \* the handler _process_update has called for it, else NoHandler
    running,           \* number of handler calls that have begun and not ended
    dlog,              \* what read_updates logged of the update it holds, or NoLog
    pc,                \* per worker type: position in _manage_resource
    resources,         \* per worker type: `resources` of _sync_resources
    idx,               \* per worker type: items of `resources` already put
    sync_rv,           \* per worker type: `resource_version` of _sync_resources
    resource_version,  \* per worker type: `resource_version` of _watch_resource
    wupdate,           \* per worker type: `update` of _watch_resource awaiting put
    exc                \* per worker type: exception _manage_resource is handling

registry == <<handlers, calls>>
gate == <<leader_elect, leader, mainpc, lpc, polled, worker_threads>>
dispatcher == <<dpc, update, called, running, dlog>>
workers == <<pc, resources, idx, sync_rv, resource_version, wupdate, exc>>
engine == <<event_queue, unfinished_tasks, dpc, update, called, running, dlog, pc, resources, idx, sync_rv,
            resource_version, wupdate, exc>>
vars == <<leader_elect, leader, mainpc, lpc, polled, worker_threads, handlers, calls, event_queue,
          unfinished_tasks, dpc, update, called, running, dlog, pc, resources, idx, sync_rv,
          resource_version, wupdate, exc>>

\* add_handler with the resource type alone as the key: the handlers of one
\* type share an entry.
add_handler_TypeOnly(h, resource_type, event_type, handler) ==
    [k \in (DOMAIN h) \cup {<<resource_type, event_type>>} |->
        IF k[1] = resource_type THEN handler ELSE h[k]]

\* ------------------------------------------------------------ construction
\* add_handler: self._handlers[(resource_type, event_type)] = handler
add_handler(h, resource_type, event_type, handler) ==
    [k \in (DOMAIN h) \cup {<<resource_type, event_type>>} |->
        IF k = <<resource_type, event_type>> THEN handler ELSE h[k]]

\* The nine add_handler calls of __init__.
InitHandlers ==
    LET h0 == [k \in {} |-> "none"]
        h1 == add_handler(h0, RESOURCE_TYPE_NETWORK_POLICY, TYPE_ADDED, "add_update_network_policy")
        h2 == add_handler(h1, RESOURCE_TYPE_NETWORK_POLICY, TYPE_MODIFIED, "add_update_network_policy")
        h3 == add_handler(h2, RESOURCE_TYPE_NETWORK_POLICY, TYPE_DELETED, "delete_network_policy")
        h4 == add_handler(h3, RESOURCE_TYPE_NAMESPACE, TYPE_ADDED, "add_update_namespace")
        h5 == add_handler(h4, RESOURCE_TYPE_NAMESPACE, TYPE_MODIFIED, "add_update_namespace")
        h6 == add_handler(h5, RESOURCE_TYPE_NAMESPACE, TYPE_DELETED, "delete_namespace")
        h7 == add_handler(h6, RESOURCE_TYPE_POD, TYPE_ADDED, "add_update_pod")
        h8 == add_handler(h7, RESOURCE_TYPE_POD, TYPE_MODIFIED, "add_update_pod")
    IN  add_handler(h8, RESOURCE_TYPE_POD, TYPE_DELETED, "delete_pod")

\* The nine add_handler calls of __init__, in order.
InitCalls ==
    << <<RESOURCE_TYPE_NETWORK_POLICY, TYPE_ADDED, "add_update_network_policy">>,
       <<RESOURCE_TYPE_NETWORK_POLICY, TYPE_MODIFIED, "add_update_network_policy">>,
       <<RESOURCE_TYPE_NETWORK_POLICY, TYPE_DELETED, "delete_network_policy">>,
       <<RESOURCE_TYPE_NAMESPACE, TYPE_ADDED, "add_update_namespace">>,
       <<RESOURCE_TYPE_NAMESPACE, TYPE_MODIFIED, "add_update_namespace">>,
       <<RESOURCE_TYPE_NAMESPACE, TYPE_DELETED, "delete_namespace">>,
       <<RESOURCE_TYPE_POD, TYPE_ADDED, "add_update_pod">>,
       <<RESOURCE_TYPE_POD, TYPE_MODIFIED, "add_update_pod">>,
       <<RESOURCE_TYPE_POD, TYPE_DELETED, "delete_pod">> >>

\* The engine of a process that has not started its workers, or has exited.
EngineIdle ==
    /\ event_queue = <<>>
    /\ unfinished_tasks = 0
    /\ dpc = "idle"
    /\ update = None
    /\ called = NoHandler
    /\ running = 0
    /\ dlog = NoLog
    /\ pc = [t \in WorkerTypes |-> "idle"]
    /\ resources = [t \in WorkerTypes |-> <<>>]
    /\ idx = [t \in WorkerTypes |-> 0]
    /\ sync_rv = [t \in WorkerTypes |-> None]
    /\ resource_version = [t \in WorkerTypes |-> None]
    /\ wupdate = [t \in WorkerTypes |-> None]
    /\ exc = [t \in WorkerTypes |-> NoExc]

\* A process after Controller(): LEADER_ELECTION is read from the environment.
Init ==
    /\ leader_elect \in BOOLEAN
    /\ leader = Self
    /\ mainpc = [i \in Instances |-> "run"]
    /\ lpc = [i \in Instances |-> "none"]
    /\ polled = [i \in Instances |-> NoPoll]
    /\ worker_threads = [t \in WorkerTypes |-> 0]
    /\ handlers = InitHandlers
    /\ calls = InitCalls
    /\ EngineIdle

\* ------------------------------------------------------------ process exit
\* The memory of a process that exits: the queue, the threads and their locals
\* are gone. Nothing is drained.
EngineDiscard ==
    /\ event_queue' = <<>>
    /\ unfinished_tasks' = 0
    /\ dpc' = "idle"
    /\ update' = None
    /\ called' = NoHandler
    /\ running' = 0
    /\ dlog' = NoLog
    /\ pc' = [t \in WorkerTypes |-> "idle"]
    /\ resources' = [t \in WorkerTypes |-> <<>>]
    /\ idx' = [t \in WorkerTypes |-> 0]
    /\ sync_rv' = [t \in WorkerTypes |-> None]
    /\ resource_version' = [t \in WorkerTypes |-> None]
    /\ wupdate' = [t \in WorkerTypes |-> None]
    /\ exc' = [t \in WorkerTypes |-> NoExc]

\* The process of instance i ends, how: "exited" by os._exit(1), "uncaught"
\* by an exception leaving run() in the main thread; every other thread is a
\* daemon.
Terminate(i, how) ==
    /\ mainpc' = [mainpc EXCEPT ![i] = how]
    /\ lpc' = [lpc EXCEPT ![i] = "none"]
    /\ IF i = Self
       THEN /\ EngineDiscard
            /\ worker_threads' = [t \in WorkerTypes |-> 0]
       ELSE UNCHANGED <<engine, worker_threads>>
    /\ UNCHANGED <<leader_elect, leader, registry>>

\* os._exit(1)
Exit(i) == Terminate(i, "exited")

\* An exception leaves run().
Uncaught(i) == Terminate(i, "uncaught")

Alive(i) == mainpc[i] \notin {"exited", "uncaught"}

\* ------------------------------------------------------------ leadership gate
\* _is_leader: our_name == leader_name, for the name the endpoint answered.
is_leader(i, answer) == answer = i

\* Run with the wait for leadership made whatever LEADER_ELECTION says.
Run_AlwaysWait(i) ==
    /\ mainpc[i] = "run"
    /\ mainpc' = [mainpc EXCEPT ![i] = "wait_for_leadership"]
    /\ UNCHANGED <<leader_elect, worker_threads, leader, lpc, polled, registry, engine>>

\* run(), up to the test of self._leader_elect.
Run(i) ==
    /\ mainpc[i] = "run"
    /\ mainpc' = [mainpc EXCEPT ![i] =
          IF leader_elect THEN "wait_for_leadership" ELSE "initialize"]
    /\ UNCHANGED <<leader_elect, worker_threads, leader, lpc, polled, registry, engine>>

\* WaitForLeadership without the except clause: every exception of the poll
\* leaves run().
WaitForLeadership_NoCatch(i, answer) ==
    /\ mainpc[i] = "wait_for_leadership"
    /\ polled' = [polled EXCEPT ![i] = answer]
    /\ IF answer \in PollErrors
       THEN Uncaught(i)
       ELSE /\ mainpc' = [mainpc EXCEPT ![i] =
                  IF is_leader(i, answer) THEN "start_leader_thread" ELSE @]
            /\ UNCHANGED <<leader_elect, worker_threads, leader, lpc, registry, engine>>

\* WaitForLeadership ending at the first response of the endpoint, whatever
\* name it carries.
WaitForLeadership_AnyAnswer(i, answer) ==
    /\ mainpc[i] = "wait_for_leadership"
    /\ polled' = [polled EXCEPT ![i] = answer]
    /\ IF answer = "Exception"
       THEN Uncaught(i)
       ELSE /\ mainpc' = [mainpc EXCEPT ![i] =
                  IF answer # "ConnectionError" THEN "start_leader_thread" ELSE @]
            /\ UNCHANGED <<leader_elect, worker_threads, leader, lpc, registry, engine>>

\* One turn of the loop of _wait_for_leadership: a poll, then the sleep.
\* Only requests' ConnectionError is caught; anything else leaves run().
WaitForLeadership(i, answer) ==
    /\ mainpc[i] = "wait_for_leadership"
    /\ polled' = [polled EXCEPT ![i] = answer]
    /\ IF answer = "Exception"
       THEN Uncaught(i)
       ELSE /\ mainpc' = [mainpc EXCEPT ![i] =
                  IF answer # "ConnectionError" /\ is_leader(i, answer)
                  THEN "start_leader_thread" ELSE @]
            /\ UNCHANGED <<leader_elect, worker_threads, leader, lpc, registry, engine>>

\* _start_leader_thread
StartLeaderThread(i) ==
    /\ mainpc[i] = "start_leader_thread"
    /\ mainpc' = [mainpc EXCEPT ![i] = "initialize"]
    /\ lpc' = [lpc EXCEPT ![i] = "poll"]
    /\ UNCHANGED <<leader_elect, worker_threads, leader, polled, registry, engine>>

\* initialize: aci_setup, an external collaborator.
Initialize(i) ==
    /\ mainpc[i] = "initialize"
    /\ mainpc' = [mainpc EXCEPT ![i] = "start_workers"]
    /\ UNCHANGED <<leader_elect, worker_threads, leader, lpc, polled, registry, engine>>

\* start_workers: one Thread running _manage_resource is started for each
\* resource type; then run() enters read_updates.
StartWorkers(i) ==
    /\ mainpc[i] = "start_workers"
    /\ mainpc' = [mainpc EXCEPT ![i] = "read_updates"]
    /\ IF i = Self
       THEN /\ worker_threads' = [t \in WorkerTypes |-> worker_threads[t] + 1]
            /\ pc' = [t \in WorkerTypes |-> "sync"]
            /\ dpc' = "get"
            /\ UNCHANGED <<event_queue, unfinished_tasks, update, called, running, dlog,
                           resources, idx, sync_rv, resource_version, wupdate, exc>>
       ELSE UNCHANGED <<engine, worker_threads>>
    /\ UNCHANGED <<leader_elect, leader, lpc, polled, registry>>

\* WatchLeadership with an exception of the poll logged and the loop going on.
WatchLeadership_Tolerant(i, answer) ==
    /\ lpc[i] = "poll"
    /\ Alive(i)
    /\ polled' = [polled EXCEPT ![i] = answer]
    /\ IF answer \in PollErrors \/ is_leader(i, answer)
       THEN UNCHANGED <<leader_elect, worker_threads, leader, mainpc, lpc, registry, engine>>
       ELSE Exit(i)

\* WatchLeadership with the loss of leadership answered by going back to
\* _wait_for_leadership instead of os._exit: the engine is stopped and the
\* instance waits to be elected again.
WatchLeadership_Rejoin(i, answer) ==
    /\ lpc[i] = "poll"
    /\ Alive(i)
    /\ polled' = [polled EXCEPT ![i] = answer]
    /\ IF answer \notin PollErrors /\ is_leader(i, answer)
       THEN UNCHANGED <<leader_elect, worker_threads, leader, mainpc, lpc, registry, engine>>
       ELSE /\ mainpc' = [mainpc EXCEPT ![i] = "wait_for_leadership"]
            /\ lpc' = [lpc EXCEPT ![i] = "none"]
            /\ IF i = Self
               THEN /\ EngineDiscard
                    /\ worker_threads' = [t \in WorkerTypes |-> 0]
               ELSE UNCHANGED <<engine, worker_threads>>
            /\ UNCHANGED <<leader_elect, leader, registry>>

\* One turn of the loop of _watch_leadership: a poll, then the sleep.
WatchLeadership(i, answer) ==
    /\ lpc[i] = "poll"
    /\ Alive(i)
    /\ polled' = [polled EXCEPT ![i] = answer]
    /\ IF answer \notin PollErrors /\ is_leader(i, answer)
       THEN UNCHANGED <<leader_elect, worker_threads, leader, mainpc, lpc, registry, engine>>
       ELSE Exit(i)

\* The election endpoint elects another instance.
ElectionChange ==
    /\ leader' \in Instances \ {leader}
    /\ UNCHANGED <<leader_elect, worker_threads, mainpc, lpc, polled, registry, engine>>

\* An instance is processing events: its workers and read_updates run.
Active(i) == mainpc[i] = "read_updates"

\* ------------------------------------------------------------ event queue
\* queue.Queue(maxsize): a put finds the queue full when qsize() >= maxsize.
QueueFull == Len(event_queue) >= MAX_QUEUE_SIZE

\* Put without the capacity test, as on a queue built without maxsize.
Put_Unbounded(u) ==
    /\ event_queue' = Append(event_queue, u)
    /\ unfinished_tasks' = unfinished_tasks + 1

\* put(update, block=True, timeout=QUEUE_PUT_TIMEOUT) returning: there was
\* room, at once or before the timeout ran out.
Put(u) ==
    /\ ~QueueFull
    /\ event_queue' = Append(event_queue, u)
    /\ unfinished_tasks' = unfinished_tasks + 1

\* ------------------------------------------------------------ worker threads
WorkersRun == mainpc[Self] = "read_updates"

\* The except clause of _manage_resource that catches an exception of worker t.
ExceptClause(e) ==
    CASE e \in {"ConnectionError", "ChunkedEncodingError"} -> "ConnectionError"
      [] e = "HTTPError" -> "HTTPError"
      [] e = "KubernetesApiError" -> "KubernetesApiError"
      [] e = "Full" -> "Full"
      [] OTHER -> "Exception"

\* Raise with the workers restarted together: the failure of one sends every
\* worker to the sleep and the list call.
Raise_All(t, e) ==
    /\ pc' = [w \in WorkerTypes |-> "sleep"]
    /\ exc' = [w \in WorkerTypes |-> ExceptClause(e)]
    /\ resources' = [w \in WorkerTypes |-> <<>>]
    /\ idx' = [w \in WorkerTypes |-> 0]
    /\ sync_rv' = [w \in WorkerTypes |-> None]
    /\ resource_version' = [w \in WorkerTypes |-> None]
    /\ wupdate' = [w \in WorkerTypes |-> None]

\* Raise with the cursor of the watch kept across the failure.
Raise_KeepCursor(t, e) ==
    /\ pc' = [pc EXCEPT ![t] = "sleep"]
    /\ exc' = [exc EXCEPT ![t] = ExceptClause(e)]
    /\ resources' = [resources EXCEPT ![t] = <<>>]
    /\ idx' = [idx EXCEPT ![t] = 0]
    /\ sync_rv' = [sync_rv EXCEPT ![t] = None]
    /\ wupdate' = [wupdate EXCEPT ![t] = None]
    /\ UNCHANGED resource_version

\* Raise with the watch retried from the cursor in hand, without a list.
Raise_RetryWatch(t, e) ==
    /\ pc' = [pc EXCEPT ![t] = IF resource_version[t] # None THEN "watch_open" ELSE "sleep"]
    /\ exc' = [exc EXCEPT ![t] = ExceptClause(e)]
    /\ resources' = [resources EXCEPT ![t] = <<>>]
    /\ idx' = [idx EXCEPT ![t] = 0]
    /\ sync_rv' = [sync_rv EXCEPT ![t] = None]
    /\ wupdate' = [wupdate EXCEPT ![t] = None]
    /\ UNCHANGED resource_version

\* Raise without the last except clause of _manage_resource: an exception
\* that none of the named clauses catches ends the worker thread.
Raise_Unhandled(t, e) ==
    /\ pc' = [pc EXCEPT ![t] = IF ExceptClause(e) = "Exception" THEN "idle" ELSE "sleep"]
    /\ exc' = [exc EXCEPT ![t] = ExceptClause(e)]
    /\ resources' = [resources EXCEPT ![t] = <<>>]
    /\ idx' = [idx EXCEPT ![t] = 0]
    /\ sync_rv' = [sync_rv EXCEPT ![t] = None]
    /\ resource_version' = [resource_version EXCEPT ![t] = None]
    /\ wupdate' = [wupdate EXCEPT ![t] = None]

\* An exception leaves _sync_resources or _watch_resource: their frames, with
\* the cursor, are dropped; the except clause logs and the finally clause
\* sleeps; the loop of _manage_resource then starts over at _sync_resources.
Raise(t, e) ==
    /\ pc' = [pc EXCEPT ![t] = "sleep"]
    /\ exc' = [exc EXCEPT ![t] = ExceptClause(e)]
    /\ resources' = [resources EXCEPT ![t] = <<>>]
    /\ idx' = [idx EXCEPT ![t] = 0]
    /\ sync_rv' = [sync_rv EXCEPT ![t] = None]
    /\ resource_version' = [resource_version EXCEPT ![t] = None]
    /\ wupdate' = [wupdate EXCEPT ![t] = None]

\* Exceptions of _api_get and of reading its response.
ApiErrors == {"ConnectionError", "HTTPError"}

\* SyncReturn with the cursor taken as metadata["resourceVersion"]: a list
\* body that carries none raises KeyError.
SyncReturn_NeedsCursor(t, rv) ==
    IF rv = None
    THEN Raise(t, "KeyError")
    ELSE /\ pc' = [pc EXCEPT ![t] = "watch_open"]
         /\ resource_version' = [resource_version EXCEPT ![t] = rv]
         /\ resources' = [resources EXCEPT ![t] = <<>>]
         /\ idx' = [idx EXCEPT ![t] = 0]
         /\ sync_rv' = [sync_rv EXCEPT ![t] = None]
         /\ UNCHANGED <<wupdate, exc>>

\* _sync_resources returns its resource_version, which _manage_resource passes
\* to _watch_resource: the sync locals go, the watch stands at its first call.
SyncReturn(t, rv) ==
    /\ pc' = [pc EXCEPT ![t] = "watch_open"]
    /\ resource_version' = [resource_version EXCEPT ![t] = rv]
    /\ resources' = [resources EXCEPT ![t] = <<>>]
    /\ idx' = [idx EXCEPT ![t] = 0]
    /\ sync_rv' = [sync_rv EXCEPT ![t] = None]
    /\ UNCHANGED <<wupdate, exc>>

\* _sync_resources up to its for loop: the list call and the parse of its body
\* (items, and rv from the body's metadata). With no items the loop is empty
\* and the function returns.
SyncList(t) ==
    /\ WorkersRun
    /\ pc[t] = "sync"
    /\ \/ \E e \in ApiErrors : Raise(t, e)
       \/ Raise(t, "KubernetesApiError")              \* status_code != 200
       \/ Raise(t, "KeyError")                        \* a body without "items"
       \/ \E items \in ListBodies(t), rv \in ListCursors(t) :
            IF items = <<>>
            THEN SyncReturn(t, rv)
            ELSE /\ pc' = [pc EXCEPT ![t] = "sync_put"]
                 /\ resources' = [resources EXCEPT ![t] = items]
                 /\ idx' = [idx EXCEPT ![t] = 0]
                 /\ sync_rv' = [sync_rv EXCEPT ![t] = rv]
                 /\ UNCHANGED <<resource_version, wupdate, exc>>
    /\ UNCHANGED <<gate, registry, event_queue, unfinished_tasks, dispatcher>>

\* SyncUpdate with the listed resource announced as new.
SyncUpdate_Added(t, resource) == <<TYPE_ADDED, t, resource>>

\* The update _sync_resources builds for a listed resource.
SyncUpdate(t, resource) == <<TYPE_MODIFIED, t, resource>>

\* SyncPut with put_nowait and the resource skipped when the queue is full.
SyncPut_Drop(t) ==
    /\ WorkersRun
    /\ pc[t] = "sync_put"
    /\ IF QueueFull
       THEN UNCHANGED <<event_queue, unfinished_tasks>>
       ELSE Put(SyncUpdate(t, resources[t][idx[t] + 1]))
    /\ IF idx[t] + 1 = Len(resources[t])
       THEN SyncReturn(t, sync_rv[t])
       ELSE /\ idx' = [idx EXCEPT ![t] = @ + 1]
            /\ UNCHANGED <<pc, resources, sync_rv, resource_version, wupdate, exc>>
    /\ UNCHANGED <<gate, registry, dispatcher>>

\* One turn of the for loop of _sync_resources: the put of the next resource
\* returns; after the last one the function returns.
SyncPut(t) ==
    /\ WorkersRun
    /\ pc[t] = "sync_put"
    /\ Put(SyncUpdate(t, resources[t][idx[t] + 1]))
    /\ IF idx[t] + 1 = Len(resources[t])
       THEN SyncReturn(t, sync_rv[t])
       ELSE /\ idx' = [idx EXCEPT ![t] = @ + 1]
            /\ UNCHANGED <<pc, resources, sync_rv, resource_version, wupdate, exc>>
    /\ UNCHANGED <<gate, registry, dispatcher>>

\* The put of _sync_resources times out: queue.Full.
SyncPutTimeout(t) ==
    /\ WorkersRun
    /\ pc[t] = "sync_put"
    /\ QueueFull
    /\ Raise(t, "Full")
    /\ UNCHANGED <<gate, registry, event_queue, unfinished_tasks, dispatcher>>

\* _api_get: what it appends to the path for its resource_version argument,
\* "?resourceVersion=%s" when the argument is truthy and nothing otherwise.
ApiGetQuery(rv) == IF rv # None THEN <<"resourceVersion", rv>> ELSE <<>>

\* The resourceVersion _watch_resource passes to _api_get.
WatchCursor(t) == resource_version[t]

\* The query of the streaming call _watch_resource makes.
WatchQuery(t) == ApiGetQuery(WatchCursor(t))

\* The head of the while loop of _watch_resource: the streaming call.
WatchOpen(t) ==
    /\ WorkersRun
    /\ pc[t] = "watch_open"
    /\ \/ \E e \in ApiErrors : Raise(t, e)
       \/ Raise(t, "KubernetesApiError")              \* status_code != 200
       \/ /\ pc' = [pc EXCEPT ![t] = "watch_read"]
          /\ UNCHANGED <<resources, idx, sync_rv, resource_version, wupdate, exc>>
    /\ UNCHANGED <<gate, registry, event_queue, unfinished_tasks, dispatcher>>

\* resource["metadata"]["resourceVersion"] is there to read.
HasCursor(resource) == "resourceVersion" \in DOMAIN resource

\* WatchPutReturns with the cursor left where the list put it.
WatchPutReturns_NoAdvance(t, u) ==
    /\ Put(u)
    /\ wupdate' = [wupdate EXCEPT ![t] = None]
    /\ pc' = [pc EXCEPT ![t] = "watch_read"]
    /\ UNCHANGED <<resources, idx, sync_rv, resource_version, exc>>

\* WatchPutReturns with the cursor kept in one attribute all workers share.
WatchPutReturns_Shared(t, u) ==
    /\ Put(u)
    /\ IF HasCursor(u[3])
       THEN /\ resource_version' = [w \in WorkerTypes |-> u[3].resourceVersion]
            /\ wupdate' = [wupdate EXCEPT ![t] = None]
            /\ pc' = [pc EXCEPT ![t] = "watch_read"]
            /\ UNCHANGED <<resources, idx, sync_rv, exc>>
       ELSE Raise(t, "KeyError")

\* WatchPutReturns with new_ver read by metadata.get("resourceVersion"): a
\* resource without one leaves the cursor as it is and the worker reads on.
WatchPutReturns_Lenient(t, u) ==
    /\ Put(u)
    /\ resource_version' =
          [resource_version EXCEPT ![t] = IF HasCursor(u[3]) THEN u[3].resourceVersion ELSE @]
    /\ wupdate' = [wupdate EXCEPT ![t] = None]
    /\ pc' = [pc EXCEPT ![t] = "watch_read"]
    /\ UNCHANGED <<resources, idx, sync_rv, exc>>

\* The put of _watch_resource returns: the update is in the queue and new_ver,
\* the resourceVersion of its resource, becomes the cursor; back to iter_lines.
\* A resource without resourceVersion raises KeyError there, after the put.
WatchPutReturns(t, u) ==
    /\ Put(u)
    /\ IF HasCursor(u[3])
       THEN /\ resource_version' = [resource_version EXCEPT ![t] = u[3].resourceVersion]
            /\ wupdate' = [wupdate EXCEPT ![t] = None]
            /\ pc' = [pc EXCEPT ![t] = "watch_read"]
            /\ UNCHANGED <<resources, idx, sync_rv, exc>>
       ELSE Raise(t, "KeyError")

\* WatchUpdate with the first two fields of the tuple in the other order.
WatchUpdate_Swapped(event_type, resource) == <<resource.kind, event_type, resource>>

\* The update _watch_resource builds from a parsed line.
WatchUpdate(event_type, resource) == <<event_type, resource.kind, resource>>

\* ParsedIsError with the test left out: every line is taken for an event.
ParsedIsError_Never(line) == FALSE

\* parsed["type"] == TYPE_ERROR
ParsedIsError(line) == line[1] = TYPE_ERROR

\* One turn of the for loop over response.iter_lines() of a stream that can
\* yield `lines`: the stream breaks, or ends, or yields a line; a line of type
\* ERROR raises KubernetesApiError, any other event line is put at once when
\* the queue has room, and otherwise the thread blocks in put.
WatchReadFrom(t, lines) ==
    /\ WorkersRun
    /\ pc[t] = "watch_read"
    /\ \/ /\ \/ \E e \in {"ConnectionError", "ChunkedEncodingError"} : Raise(t, e)
             \/ Raise(t, "ValueError")                   \* a line that is no JSON
             \/ Raise(t, "KeyError")                     \* no type, object, kind or metadata.name
             \/ UNCHANGED workers                        \* a keep-alive new line
             \/ /\ pc' = [pc EXCEPT ![t] = "watch_open"] \* iter_lines is exhausted
                /\ UNCHANGED <<resources, idx, sync_rv, resource_version, wupdate, exc>>
          /\ UNCHANGED <<event_queue, unfinished_tasks>>
       \/ \E line \in lines :
            IF ParsedIsError(line)
            THEN /\ Raise(t, "KubernetesApiError")
                 /\ UNCHANGED <<event_queue, unfinished_tasks>>
            ELSE IF QueueFull
            THEN /\ pc' = [pc EXCEPT ![t] = "watch_put"]
                 /\ wupdate' = [wupdate EXCEPT ![t] = WatchUpdate(line[1], line[2])]
                 /\ UNCHANGED <<event_queue, unfinished_tasks, resources, idx, sync_rv, resource_version, exc>>
            ELSE WatchPutReturns(t, WatchUpdate(line[1], line[2]))
    /\ UNCHANGED <<gate, registry, dispatcher>>

\* The for loop over a stream of the event and ERROR lines of collection t.
WatchRead(t) == WatchReadFrom(t, WatchLines(t) \cup ErrorLines(t))

\* The for loop over a stream of odd lines.
WatchReadOdd(t) == WatchReadFrom(t, OddLines(t))

\* WatchPut with the stream read on while the put is blocked: a later line
\* takes the place of the update that waits.
WatchPut_Overtaken(t) ==
    /\ WorkersRun
    /\ pc[t] = "watch_put"
    /\ \E line \in WatchLines(t) : WatchPutReturns(t, WatchUpdate(line[1], line[2]))
    /\ UNCHANGED <<gate, registry, dispatcher>>

\* The blocked put of _watch_resource finds room before its timeout.
WatchPut(t) ==
    /\ WorkersRun
    /\ pc[t] = "watch_put"
    /\ WatchPutReturns(t, wupdate[t])
    /\ UNCHANGED <<gate, registry, dispatcher>>

\* WatchPutTimeout with the update that found no room passed over: the worker
\* takes its resourceVersion for the cursor and reads on.
WatchPutTimeout_Skip(t) ==
    /\ WorkersRun
    /\ pc[t] = "watch_put"
    /\ QueueFull
    /\ pc' = [pc EXCEPT ![t] = "watch_read"]
    /\ resource_version' = [resource_version EXCEPT ![t] = wupdate[t][3].resourceVersion]
    /\ wupdate' = [wupdate EXCEPT ![t] = None]
    /\ UNCHANGED <<gate, registry, event_queue, unfinished_tasks, dispatcher, resources, idx, sync_rv,
                   exc>>

\* WatchPutTimeout with queue.Full swallowed at the put: the update is dropped
\* and the worker goes on reading the stream.
WatchPutTimeout_Drop(t) ==
    /\ WorkersRun
    /\ pc[t] = "watch_put"
    /\ QueueFull
    /\ pc' = [pc EXCEPT ![t] = "watch_read"]
    /\ wupdate' = [wupdate EXCEPT ![t] = None]
    /\ UNCHANGED <<gate, registry, event_queue, unfinished_tasks, dispatcher, resources, idx, sync_rv,
                   resource_version, exc>>

\* The put of _watch_resource times out: queue.Full.
WatchPutTimeout(t) ==
    /\ WorkersRun
    /\ pc[t] = "watch_put"
    /\ QueueFull
    /\ Raise(t, "Full")
    /\ UNCHANGED <<gate, registry, event_queue, unfinished_tasks, dispatcher>>

\* Sleep with the failed worker replaced: the except clause starts a new
\* thread for the resource type, and the loop of the old one goes on too.
Sleep_Respawn(t) ==
    /\ WorkersRun
    /\ pc[t] = "sleep"
    /\ pc' = [pc EXCEPT ![t] = "sync"]
    /\ exc' = [exc EXCEPT ![t] = NoExc]
    /\ worker_threads' = [worker_threads EXCEPT ![t] = @ + 1]
    /\ UNCHANGED <<leader_elect, leader, mainpc, lpc, polled, registry, event_queue,
                   unfinished_tasks, dispatcher, resources, idx, sync_rv,
                   resource_version, wupdate>>

\* Sleep with the loop of _manage_resource left after the sleep: the worker
\* logs its failure and returns.
Sleep_GiveUp(t) ==
    /\ WorkersRun
    /\ pc[t] = "sleep"
    /\ pc' = [pc EXCEPT ![t] = "idle"]
    /\ UNCHANGED <<gate, registry, event_queue, unfinished_tasks, dispatcher, resources, idx, sync_rv,
                   resource_version, wupdate, exc>>

\* The sleep of the finally clause ends; the while loop starts over.
Sleep(t) ==
    /\ WorkersRun
    /\ pc[t] = "sleep"
    /\ pc' = [pc EXCEPT ![t] = "sync"]
    /\ exc' = [exc EXCEPT ![t] = NoExc]
    /\ UNCHANGED <<gate, registry, event_queue, unfinished_tasks, dispatcher, resources, idx, sync_rv,
                   resource_version, wupdate>>

\* ------------------------------------------------------------ dispatcher
\* HasHandler of a registry that answers every key with a default handler.
HasHandler_Default(resource_type, event_type) == TRUE

\* The key (resource_type, event_type) is in self._handlers.
HasHandler(resource_type, event_type) == <<resource_type, event_type>> \in DOMAIN handlers

\* get_handler with one handler per resource type: the handler of MODIFIED
\* updates is returned for every event type that has a handler.
get_handler_Upsert(resource_type, event_type) == handlers[<<resource_type, TYPE_MODIFIED>>]

\* get_handler: self._handlers[key], with "KeyError" for the exception an
\* absent key raises.
get_handler(resource_type, event_type) ==
    IF <<resource_type, event_type>> \in DOMAIN handlers
    THEN handlers[<<resource_type, event_type>>]
    ELSE "KeyError"

\* HasIdentity with the name read by get, absent names read as None.
HasIdentity_Get(resource) == TRUE

\* resource["metadata"]["name"] of _process_update can be read.
HasIdentity(resource) == "name" \in DOMAIN resource

\* What _process_update and read_updates log of an update for which no
\* handler is called: the KeyError of the identity reaches read_updates, the
\* KeyError of get_handler is caught in _process_update.
ProcessLog(u) ==
    IF ~HasIdentity(u[3]) THEN "Invalid update" ELSE "No handlers"

\* ReadUpdatesGet with the handler started in a thread of its own: read_updates
\* goes on to the next get without waiting for it.
ReadUpdatesGet_Threaded ==
    /\ WorkersRun
    /\ dpc = "get"
    /\ event_queue # <<>>
    /\ event_queue' = Tail(event_queue)
    /\ UNCHANGED unfinished_tasks
    /\ LET u == Head(event_queue)
       IN  IF HasIdentity(u[3]) /\ HasHandler(u[2], u[1])
           THEN /\ dpc' = "get"
                /\ update' = u
                /\ called' = get_handler(u[2], u[1])
                /\ running' = running + 1
                /\ UNCHANGED dlog
           ELSE /\ dpc' = "task_done"
                /\ dlog' = ProcessLog(u)
                /\ UNCHANGED <<update, called, running>>
    /\ UNCHANGED <<gate, registry, workers>>

\* ReadUpdatesGet on a LifoQueue: get takes the update put last.
ReadUpdatesGet_Lifo ==
    /\ WorkersRun
    /\ dpc = "get"
    /\ event_queue # <<>>
    /\ event_queue' = SubSeq(event_queue, 1, Len(event_queue) - 1)
    /\ UNCHANGED unfinished_tasks
    /\ LET u == event_queue[Len(event_queue)]
       IN  IF HasIdentity(u[3]) /\ HasHandler(u[2], u[1])
           THEN /\ dpc' = "handler"
                /\ update' = u
                /\ called' = get_handler(u[2], u[1])
                /\ running' = running + 1
                /\ UNCHANGED dlog
           ELSE /\ dpc' = "task_done"
                /\ dlog' = ProcessLog(u)
                /\ UNCHANGED <<update, called, running>>
    /\ UNCHANGED <<gate, registry, workers>>

\* ReadUpdatesGet reading the head of the queue without taking it out: the
\* update stays queued and is read again at the next turn.
ReadUpdatesGet_Peek ==
    /\ WorkersRun
    /\ dpc = "get"
    /\ event_queue # <<>>
    /\ UNCHANGED <<event_queue, unfinished_tasks>>
    /\ LET u == Head(event_queue)
       IN  IF HasIdentity(u[3]) /\ HasHandler(u[2], u[1])
           THEN /\ dpc' = "handler"
                /\ update' = u
                /\ called' = get_handler(u[2], u[1])
                /\ running' = running + 1
                /\ UNCHANGED dlog
           ELSE /\ dpc' = "task_done"
                /\ dlog' = ProcessLog(u)
                /\ UNCHANGED <<update, called, running>>
    /\ UNCHANGED <<gate, registry, workers>>

\* ReadUpdatesGet skipping an update that a later update of the same resource,
\* still queued, supersedes.
ReadUpdatesGet_Coalesce ==
    /\ WorkersRun
    /\ dpc = "get"
    /\ event_queue # <<>>
    /\ event_queue' = Tail(event_queue)
    /\ UNCHANGED unfinished_tasks
    /\ LET u == Head(event_queue)
           superseded == \E k \in 2..Len(event_queue) :
                             /\ event_queue[k][2] = u[2]
                             /\ HasIdentity(u[3]) /\ HasIdentity(event_queue[k][3])
                             /\ event_queue[k][3].name = u[3].name
       IN  IF HasIdentity(u[3]) /\ HasHandler(u[2], u[1]) /\ ~superseded
           THEN /\ dpc' = "handler"
                /\ update' = u
                /\ called' = get_handler(u[2], u[1])
                /\ running' = running + 1
                /\ UNCHANGED dlog
           ELSE /\ dpc' = "task_done"
                /\ dlog' = IF superseded THEN NoLog ELSE ProcessLog(u)
                /\ UNCHANGED <<update, called, running>>
    /\ UNCHANGED <<gate, registry, workers>>

\* ReadUpdatesGet with a handler that only logs registered, at the first miss,
\* for a pair that has none.
ReadUpdatesGet_Register ==
    /\ WorkersRun
    /\ dpc = "get"
    /\ event_queue # <<>>
    /\ event_queue' = Tail(event_queue)
    /\ UNCHANGED unfinished_tasks
    /\ LET u == Head(event_queue)
       IN  /\ IF HasIdentity(u[3]) /\ HasHandler(u[2], u[1])
              THEN /\ dpc' = "handler"
                   /\ update' = u
                   /\ called' = get_handler(u[2], u[1])
                   /\ running' = running + 1
                   /\ UNCHANGED dlog
              ELSE /\ dpc' = "task_done"
                   /\ dlog' = ProcessLog(u)
                   /\ UNCHANGED <<update, called, running>>
           /\ handlers' = IF HasIdentity(u[3]) /\ ~HasHandler(u[2], u[1])
                          THEN add_handler(handlers, u[2], u[1], "log_only")
                          ELSE handlers
    /\ UNCHANGED <<gate, calls, workers>>

\* ReadUpdatesGet with a get that times out: when nothing is queued,
\* read_updates makes up a MODIFIED update of namespace "a" and processes it,
\* to have the namespace applied again.
ReadUpdatesGet_Tick ==
    /\ WorkersRun
    /\ dpc = "get"
    /\ event_queue' = IF event_queue = <<>> THEN event_queue ELSE Tail(event_queue)
    /\ UNCHANGED unfinished_tasks
    /\ LET u == IF event_queue = <<>>
                THEN <<TYPE_MODIFIED, RESOURCE_TYPE_NAMESPACE, Doc(RESOURCE_TYPE_NAMESPACE, "a", 1)>>
                ELSE Head(event_queue)
       IN  IF HasIdentity(u[3]) /\ HasHandler(u[2], u[1])
           THEN /\ dpc' = "handler"
                /\ update' = u
                /\ called' = get_handler(u[2], u[1])
                /\ running' = running + 1
                /\ UNCHANGED dlog
           ELSE /\ dpc' = "task_done"
                /\ dlog' = ProcessLog(u)
                /\ UNCHANGED <<update, called, running>>
    /\ UNCHANGED <<gate, registry, workers>>

\* read_updates takes an update from the queue and _process_update runs up to
\* the call of the handler: a KeyError on the identity goes to the except clause
\* of read_updates, a missing handler is logged, otherwise the handler is called.
ReadUpdatesGet ==
    /\ WorkersRun
    /\ dpc = "get"
    /\ event_queue # <<>>
    /\ event_queue' = Tail(event_queue)
    /\ UNCHANGED unfinished_tasks
    /\ LET u == Head(event_queue)
       IN  IF HasIdentity(u[3]) /\ HasHandler(u[2], u[1])
           THEN /\ dpc' = "handler"
                /\ update' = u
                /\ called' = get_handler(u[2], u[1])
                /\ running' = running + 1
                /\ UNCHANGED dlog
           ELSE /\ dpc' = "task_done"
                /\ dlog' = ProcessLog(u)
                /\ UNCHANGED <<update, called, running>>
    /\ UNCHANGED <<gate, registry, workers>>

\* What a handler call can end with.
HandlerOutcomes == {"return", "KeyError", "Exception"}

\* What is logged when the handler call ends: "Handled" after it returns,
\* "Invalid" with the resource when _process_update catches its KeyError,
\* nothing of an exception that passes through.
HandlerLog(outcome) ==
    CASE outcome = "return" -> "Handled"
      [] outcome = "KeyError" -> "Invalid resource"
      [] OTHER -> NoLog

\* HandlerReturn with an update whose handler raised KeyError put back in the
\* queue, to be tried again.
HandlerReturn_Requeue(outcome) ==
    /\ WorkersRun
    /\ dpc = "handler"
    /\ running' = running - 1
    /\ update' = None
    /\ called' = NoHandler
    /\ dlog' = HandlerLog(outcome)
    /\ dpc' = IF outcome = "Exception" THEN "task_done_raise" ELSE "task_done"
    /\ IF outcome = "KeyError" /\ ~QueueFull
       THEN Put(update)
       ELSE UNCHANGED <<event_queue, unfinished_tasks>>
    /\ UNCHANGED <<gate, registry, workers>>

\* The handler call ends: it returns, raises the KeyError _process_update
\* catches, or raises something else, which leaves read_updates after its
\* finally clause.
HandlerReturn(outcome) ==
    /\ WorkersRun
    /\ dpc = "handler"
    /\ running' = running - 1
    /\ update' = None
    /\ called' = NoHandler
    /\ dlog' = HandlerLog(outcome)
    /\ dpc' = IF outcome = "Exception" THEN "task_done_raise" ELSE "task_done"
    /\ UNCHANGED <<gate, registry, event_queue, unfinished_tasks, workers>>

\* TaskDone with every exception of _process_update caught in read_updates:
\* the loop goes on.
TaskDone_Resume ==
    /\ WorkersRun
    /\ dpc \in {"task_done", "task_done_raise"}
    /\ unfinished_tasks' = unfinished_tasks - 1
    /\ dpc' = "get"
    /\ dlog' = NoLog
    /\ UNCHANGED <<gate, registry, event_queue, update, called, running, workers>>

\* TaskDone in an else clause of the try: skipped when an exception passes.
TaskDone_Else ==
    /\ WorkersRun
    /\ dpc \in {"task_done", "task_done_raise"}
    /\ unfinished_tasks' = IF dpc = "task_done" THEN unfinished_tasks - 1
                           ELSE unfinished_tasks
    /\ dpc' = IF dpc = "task_done_raise" THEN "raise" ELSE "get"
    /\ dlog' = NoLog
    /\ UNCHANGED <<gate, registry, event_queue, update, called, running, workers>>

\* The finally clause of read_updates: task_done, then the next turn of the
\* loop, or the exception that was passing goes on.
TaskDone ==
    /\ WorkersRun
    /\ dpc \in {"task_done", "task_done_raise"}
    /\ unfinished_tasks' = unfinished_tasks - 1
    /\ dpc' = IF dpc = "task_done_raise" THEN "raise" ELSE "get"
    /\ dlog' = NoLog
    /\ UNCHANGED <<gate, registry, event_queue, update, called, running, workers>>

\* The exception leaves read_updates and run(): the process ends.
ReadUpdatesRaise ==
    /\ WorkersRun
    /\ dpc = "raise"
    /\ Uncaught(Self)
    /\ UNCHANGED polled

\* ------------------------------------------------------------ specifications
\* One instance, the endpoint answering its polls with any name or error.
Next ==
    \/ Run(Self)
    \/ \E answer \in PollOutcomes : WaitForLeadership(Self, answer)
    \/ StartLeaderThread(Self)
    \/ Initialize(Self)
    \/ StartWorkers(Self)
    \/ \E answer \in PollOutcomes : WatchLeadership(Self, answer)
    \/ \E t \in WorkerTypes : SyncList(t)
    \/ \E t \in WorkerTypes : SyncPut(t)
    \/ \E t \in WorkerTypes : SyncPutTimeout(t)
    \/ \E t \in WorkerTypes : WatchOpen(t)
    \/ \E t \in WorkerTypes : WatchRead(t)
    \/ \E t \in WorkerTypes : WatchPut(t)
    \/ \E t \in WorkerTypes : WatchPutTimeout(t)
    \/ \E t \in WorkerTypes : Sleep(t)
    \/ ReadUpdatesGet
    \/ \E outcome \in HandlerOutcomes : HandlerReturn(outcome)
    \/ TaskDone
    \/ ReadUpdatesRaise

\* Leader election enabled. The workers and read_updates never read
\* leader_elect: with it disabled they take the same steps, short of the exit
\* _watch_leadership causes.
InitElection == Init /\ leader_elect = TRUE
Spec == InitElection /\ [][Next]_vars

\* Leader election disabled.
InitNoElection == Init /\ leader_elect = FALSE
SpecNoElection == InitNoElection /\ [][Next]_vars

\* The gates of all instances of a redundant deployment against one election
\* endpoint, whose answer to a poll is its current leader or an error.
NextHA ==
    \/ ElectionChange
    \/ \E i \in Instances : Run(i)
    \/ \E i \in Instances, answer \in {leader} \cup PollErrors : WaitForLeadership(i, answer)
    \/ \E i \in Instances : StartLeaderThread(i)
    \/ \E i \in Instances : Initialize(i)
    \/ \E i \in Instances : StartWorkers(i)
    \/ \E i \in Instances, answer \in {leader} \cup PollErrors : WatchLeadership(i, answer)

SpecHA == Init /\ [][NextHA]_vars

\* The _watch_leadership thread of every instance keeps running: its loop has
\* no exit, so a poll that the endpoint answers with its current leader is
\* made again and again.
FairHA == \A i \in Instances : WF_vars(WatchLeadership(i, leader))
SpecHAFair == Init /\ [][NextHA]_vars /\ FairHA

\* The worker threads keep running: the sleep of the finally clause of
\* _manage_resource returns after its second. Nothing is assumed of the API
\* server, of the election endpoint, of the queue or of read_updates.
FairWorkers == \A t \in WorkerTypes : WF_vars(Sleep(t))
SpecFairWorkers == InitElection /\ [][Next]_vars /\ FairWorkers

\* The steps of the main thread in read_updates.
ReadUpdates ==
    \/ ReadUpdatesGet
    \/ \E outcome \in HandlerOutcomes : HandlerReturn(outcome)
    \/ TaskDone
    \/ ReadUpdatesRaise

\* The steps of the worker thread of t that wait for nothing but the clock:
\* the sleep of the finally clause of _manage_resource, and a put with its
\* timeout, which returns or raises queue.Full.
TimedSteps(t) ==
    \/ Sleep(t)
    \/ SyncPut(t)
    \/ SyncPutTimeout(t)
    \/ WatchPut(t)
    \/ WatchPutTimeout(t)

\* The process with the API server answering the calls of the worker of pods
\* only: the list call of the other worker, which _api_get makes without a
\* timeout, never returns.
NextPod ==
    \/ Run(Self)
    \/ \E answer \in PollOutcomes : WaitForLeadership(Self, answer)
    \/ StartLeaderThread(Self)
    \/ Initialize(Self)
    \/ StartWorkers(Self)
    \/ \E answer \in PollOutcomes : WatchLeadership(Self, answer)
    \/ SyncList(RESOURCE_TYPE_POD)
    \/ SyncPut(RESOURCE_TYPE_POD)
    \/ SyncPutTimeout(RESOURCE_TYPE_POD)
    \/ WatchOpen(RESOURCE_TYPE_POD)
    \/ WatchRead(RESOURCE_TYPE_POD)
    \/ WatchPut(RESOURCE_TYPE_POD)
    \/ WatchPutTimeout(RESOURCE_TYPE_POD)
    \/ Sleep(RESOURCE_TYPE_POD)
    \/ ReadUpdatesGet
    \/ \E outcome \in HandlerOutcomes : HandlerReturn(outcome)
    \/ TaskDone
    \/ ReadUpdatesRaise

\* What the threads can be relied on to do: the main thread goes on in
\* read_updates whenever it has a step to take (an update is queued, a handler
\* call ends, the finally clause runs, an exception leaves), and the worker
\* thread goes on after a sleep or a put. Nothing is assumed of the API
\* server, of the election endpoint, or of a put finding room.
FairPod ==
    /\ WF_vars(ReadUpdates)
    /\ WF_vars(TimedSteps(RESOURCE_TYPE_POD))
SpecFairPod == InitElection /\ [][NextPod]_vars /\ FairPod

\* The process with a control plane whose watch streams yield odd lines.
NextOdd ==
    \/ Run(Self)
    \/ \E answer \in PollOutcomes : WaitForLeadership(Self, answer)
    \/ StartLeaderThread(Self)
    \/ Initialize(Self)
    \/ StartWorkers(Self)
    \/ \E answer \in PollOutcomes : WatchLeadership(Self, answer)
    \/ \E t \in WorkerTypes : SyncList(t)
    \/ \E t \in WorkerTypes : SyncPut(t)
    \/ \E t \in WorkerTypes : SyncPutTimeout(t)
    \/ \E t \in WorkerTypes : WatchOpen(t)
    \/ \E t \in WorkerTypes : WatchReadOdd(t)
    \/ \E t \in WorkerTypes : WatchPut(t)
    \/ \E t \in WorkerTypes : WatchPutTimeout(t)
    \/ \E t \in WorkerTypes : Sleep(t)
    \/ ReadUpdatesGet
    \/ \E outcome \in HandlerOutcomes : HandlerReturn(outcome)
    \/ TaskDone
    \/ ReadUpdatesRaise
SpecOdd == InitElection /\ [][NextOdd]_vars

\* A registry under construction: self._handlers = {} of __init__, then
\* add_handler calls with any types, events and handlers, in any order.
RegistryTypes == {RESOURCE_TYPE_NAMESPACE, RESOURCE_TYPE_POD}
RegistryEvents == {TYPE_ADDED, TYPE_DELETED}
RegistryHandlers == {"add_update_pod", "delete_pod"}

InitRegistry ==
    /\ leader_elect = FALSE
    /\ leader = Self
    /\ mainpc = [i \in Instances |-> "run"]
    /\ lpc = [i \in Instances |-> "none"]
    /\ polled = [i \in Instances |-> NoPoll]
    /\ worker_threads = [t \in WorkerTypes |-> 0]
    /\ handlers = [k \in {} |-> "none"]
    /\ calls = <<>>
    /\ EngineIdle

\* self.add_handler(resource_type, event_type, handler)
AddHandlerCall(resource_type, event_type, handler) ==
    /\ Len(calls) < MaxCalls
    /\ handlers' = add_handler(handlers, resource_type, event_type, handler)
    /\ calls' = Append(calls, <<resource_type, event_type, handler>>)
    /\ UNCHANGED <<gate, engine>>

NextRegistry ==
    \E resource_type \in RegistryTypes, event_type \in RegistryEvents,
       handler \in RegistryHandlers :
        AddHandlerCall(resource_type, event_type, handler)

SpecRegistry == InitRegistry /\ [][NextRegistry]_vars

\* What self.get_handler(resource_type, event_type) comes to: the handler, or
\* the KeyError of self._handlers[key].
lookup(resource_type, event_type) ==
    IF HasHandler(resource_type, event_type)
    THEN get_handler(resource_type, event_type)
    ELSE "KeyError"

\* ------------------------------------------------------------ properties
WatchPhase == {"watch_open", "watch_read", "watch_put"}

\* Worker t puts an update in the queue in this step (the updates of worker t
\* carry resource type t).
EnqueuedBy(t) ==
    /\ Len(event_queue') = Len(event_queue) + 1
    /\ event_queue'[Len(event_queue')][2] = t

\* The update put in the queue in this step.
Enqueued == event_queue'[Len(event_queue')]

\* An exception reaches _manage_resource in worker t in this step.
Fails(t) == exc[t] = NoExc /\ exc'[t] # NoExc

\* C1: no two handler calls overlap: at most one handler call has begun and
\* not yet returned or raised, whatever the workers are doing.
C1_NoConcurrentHandlers == running <= 1

\* A handler runs while a worker is blocked in put on the full queue and the
\* other worker has just failed.
C1_Witness ==
    /\ running = 1
    /\ QueueFull
    /\ \E t \in WorkerTypes : pc[t] = "watch_put"
    /\ \E t \in WorkerTypes : pc[t] = "sleep"

\* C2: with leader election enabled, no two instances are processing events
\* at the same instant.
C2_AtMostOneActive ==
    leader_elect => Cardinality({i \in Instances : Active(i)}) <= 1

\* C3, as claimed: a watch stream that ends, in any way, is followed by a list
\* call before the next watch call: the worker never goes from reading a
\* stream straight to opening the next one.
C3_ListAfterEveryStreamEnd ==
    [][\A t \in WorkerTypes : pc[t] = "watch_read" => pc'[t] # "watch_open"]_vars

\* C3, amended: a watch stream that ends by raising sends the worker, through
\* the sleep, to a list call before any watch call, and every update the list
\* step enqueues is MODIFIED; a stream that ends without raising is reopened
\* from the cursor in hand, with no exception handled and no list.
C3_ListAfterStreamError ==
    [][\A t \in WorkerTypes :
        /\ (pc[t] \in WatchPhase /\ Fails(t)) => pc'[t] = "sleep"
        /\ pc[t] = "sleep" => pc'[t] \in {"sleep", "sync", "idle"}
        /\ (pc[t] = "sync" /\ pc'[t] \in WatchPhase) => exc'[t] = NoExc
        /\ (pc[t] \in WatchPhase /\ pc'[t] \in {"sync", "sync_put"}) => FALSE
        /\ (pc[t] = "watch_read" /\ pc'[t] = "watch_open") =>
              /\ ~Fails(t)
              /\ resource_version'[t] = resource_version[t]
        /\ (pc[t] = "sync_put" /\ EnqueuedBy(t)) => Enqueued[1] = TYPE_MODIFIED
    ]_vars

\* The handler runs for the ADDED line of pod "a" that a watch stream yielded;
\* the stream has since broken, and the list made after it has put a MODIFIED
\* update for the same pod in the queue.
C3_Witness ==
    /\ dpc = "handler"
    /\ update = <<TYPE_ADDED, RESOURCE_TYPE_POD, Doc(RESOURCE_TYPE_POD, "a", 1)>>
    /\ event_queue = << <<TYPE_MODIFIED, RESOURCE_TYPE_POD, Doc(RESOURCE_TYPE_POD, "a", 1)>> >>
    /\ pc[RESOURCE_TYPE_POD] = "watch_open"

\* C4, as claimed: a list step that got its list response always ends with
\* every returned resource enqueued.
C4_EveryListedResourceEnqueued ==
    [][\A t \in WorkerTypes :
        (pc[t] = "sync_put" /\ pc'[t] \notin {"sync_put", "idle"}) =>
            /\ pc'[t] = "watch_open"
            /\ idx[t] + 1 = Len(resources[t])
            /\ EnqueuedBy(t)
    ]_vars

\* C4, amended: the list step enqueues, in list order, one MODIFIED update of
\* the worker's type per returned resource, never an ADDED one; it returns
\* only when the last resource has been put; a put that times out on the full
\* queue ends it with the remaining resources not enqueued.
C4_ListEventsInOrder ==
    [][\A t \in WorkerTypes :
        pc[t] = "sync_put" =>
            /\ idx[t] < Len(resources[t])
            /\ \/ pc'[t] = "sync_put" /\ idx'[t] = idx[t] /\ resources'[t] = resources[t]
                     /\ ~EnqueuedBy(t)
               \/ pc'[t] = "idle"
               \/ /\ pc'[t] = "sleep"
                  /\ exc'[t] = "Full"
                  /\ QueueFull
                  /\ event_queue' = event_queue
               \/ /\ event_queue' = Append(event_queue,
                                           <<TYPE_MODIFIED, t, resources[t][idx[t] + 1]>>)
                  /\ \/ /\ idx[t] + 1 < Len(resources[t])
                        /\ pc'[t] = "sync_put"
                        /\ idx'[t] = idx[t] + 1
                        /\ resources'[t] = resources[t]
                     \/ /\ idx[t] + 1 = Len(resources[t])
                        /\ pc'[t] = "watch_open"
    ]_vars

\* The list of pods returned b then a; b is in the queue and a is next.
C4_Witness ==
    /\ pc[RESOURCE_TYPE_POD] = "sync_put"
    /\ resources[RESOURCE_TYPE_POD] =
          <<Doc(RESOURCE_TYPE_POD, "b", 2), Doc(RESOURCE_TYPE_POD, "a", 1)>>
    /\ idx[RESOURCE_TYPE_POD] = 1
    /\ event_queue = << <<TYPE_MODIFIED, RESOURCE_TYPE_POD, Doc(RESOURCE_TYPE_POD, "b", 2)>> >>

\* C5: a failure in the list step or the watch step is caught by a clause of
\* _manage_resource; the worker then sleeps once, with the process running,
\* and its next call is the list call, never a watch call.
C5_FailureSleepsThenLists ==
    /\ [](\A t \in WorkerTypes :
            exc[t] # NoExc => (pc[t] = "sleep" /\ WorkersRun))
    /\ [][\A t \in WorkerTypes :
            /\ Fails(t) => (pc[t] \in {"sync", "sync_put"} \cup WatchPhase /\ WorkersRun')
            /\ pc[t] = "sleep" => pc'[t] \in {"sleep", "sync", "idle"}
            /\ (pc[t] = "sleep" /\ pc'[t] = "sync") => exc'[t] = NoExc
            /\ (pc[t] = "sync" /\ pc'[t] # "sync") =>
                  \/ pc'[t] \in {"sync_put", "idle"}
                  \/ pc'[t] = "sleep" /\ Fails(t)
                  \/ pc'[t] = "watch_open" /\ resource_version'[t] \in Cursors(t) \cup {None}
       ]_vars

\* Both workers sleep after a failure, one after the queue was full, the
\* other after an error of the API server, while the handler runs.
C5_Witness ==
    /\ exc[RESOURCE_TYPE_POD] = "Full"
    /\ exc[RESOURCE_TYPE_NAMESPACE] \in {"KubernetesApiError", "ConnectionError", "HTTPError", "Exception"}
    /\ dpc = "handler"

\* C6: the cursor a worker held when it failed is never used again: the
\* failure drops it, none is held while the worker sleeps and lists, and the
\* watch that follows starts from the cursor the new list returned.
C6_CursorDiscarded ==
    [][\A t \in WorkerTypes :
        /\ Fails(t) => resource_version'[t] = None
        /\ pc'[t] \in {"sleep", "sync", "sync_put"} => resource_version'[t] = None
        /\ (pc[t] = "sync_put" /\ pc'[t] = "watch_open") =>
              resource_version'[t] = sync_rv[t]
        /\ (pc[t] = "sync" /\ pc'[t] = "watch_open") =>
              resource_version'[t] \in Cursors(t) \cup {None}
    ]_vars

\* The watch on pods had put the ADDED line of pod "a", whose cursor it then
\* held, and failed; the list made since returned another cursor, and the
\* worker holds none while it puts the listed pods.
C6_Witness ==
    /\ dpc = "handler"
    /\ update = <<TYPE_ADDED, RESOURCE_TYPE_POD, Doc(RESOURCE_TYPE_POD, "a", 1)>>
    /\ pc[RESOURCE_TYPE_POD] = "sync_put"
    /\ sync_rv[RESOURCE_TYPE_POD] = <<RESOURCE_TYPE_POD, 2>>
    /\ resource_version[RESOURCE_TYPE_POD] = None

\* C7, as claimed: in the watch phase the cursor of worker t is the
\* resourceVersion of the resource in the update t enqueued last, whether the
\* list step or the watch step enqueued it.
C7_CursorIsLastEnqueued ==
    [][\A t \in WorkerTypes :
        /\ (EnqueuedBy(t) /\ pc'[t] \in WatchPhase) =>
              resource_version'[t] = Enqueued[3].resourceVersion
        /\ (pc[t] \in WatchPhase /\ pc'[t] \in WatchPhase /\ ~EnqueuedBy(t)) =>
              resource_version'[t] = resource_version[t]
    ]_vars

\* C7, amended: the watch starts from the cursor the list returned, which
\* need not be that of any listed resource; from the first update the watch
\* step enqueues, the cursor is the resourceVersion of the resource in the
\* update enqueued last, and nothing else changes it while the watch lasts.
C7_CursorFollowsWatchEvents ==
    [][\A t \in WorkerTypes :
        /\ (pc[t] \in {"watch_read", "watch_put"} /\ EnqueuedBy(t)) =>
              /\ resource_version'[t] = Enqueued[3].resourceVersion
              /\ pc'[t] = "watch_read"
        /\ (pc[t] \in WatchPhase /\ pc'[t] \in WatchPhase /\ ~EnqueuedBy(t)) =>
              resource_version'[t] = resource_version[t]
        /\ (pc[t] = "sync_put" /\ pc'[t] = "watch_open") =>
              resource_version'[t] = sync_rv[t]
    ]_vars

\* The watch on pods has put the ADDED line of pod "a", now handled, then a
\* DELETED line of pod "b", and holds the cursor of pod "b".
C7_Witness ==
    /\ dpc = "handler"
    /\ update = <<TYPE_ADDED, RESOURCE_TYPE_POD, Doc(RESOURCE_TYPE_POD, "a", 1)>>
    /\ event_queue = << <<TYPE_DELETED, RESOURCE_TYPE_POD, Doc(RESOURCE_TYPE_POD, "b", 2)>> >>
    /\ pc[RESOURCE_TYPE_POD] = "watch_read"
    /\ resource_version[RESOURCE_TYPE_POD] = <<RESOURCE_TYPE_POD, 2>>

\* C8: the cursor worker t passes to a watch call is None or a token the API
\* server issued for collection t, never one issued for another collection.
C8_CursorOfOwnType ==
    \A t \in WorkerTypes :
        /\ pc[t] \in WatchPhase => WatchCursor(t) \in Cursors(t) \cup {None}
        /\ sync_rv[t] \in Cursors(t) \cup {None}

\* Both workers stand at a watch call, each with a cursor of its collection.
C8_Witness ==
    /\ pc[RESOURCE_TYPE_POD] = "watch_open"
    /\ resource_version[RESOURCE_TYPE_POD] = <<RESOURCE_TYPE_POD, 2>>
    /\ pc[RESOURCE_TYPE_NAMESPACE] = "watch_open"
    /\ resource_version[RESOURCE_TYPE_NAMESPACE] = <<RESOURCE_TYPE_NAMESPACE, 1>>

\* C9: a put that times out, in the list step or the watch step, is caught as
\* queue.Full: the worker drops its cursor and sleeps, then lists; the step
\* changes nothing of the process, of read_updates, of the queue or of the
\* other workers; a blocked put ends in no other way than by the update being
\* enqueued, by this failure, or by the exit of the process.
C9_QueueFullRecovery ==
    /\ [](\A t \in WorkerTypes :
            exc[t] = "Full" =>
                (pc[t] = "sleep" /\ resource_version[t] = None /\ WorkersRun))
    /\ [][\A t \in WorkerTypes :
            /\ (Fails(t) /\ exc'[t] = "Full") =>
                  /\ pc[t] \in {"sync_put", "watch_put"}
                  /\ QueueFull
                  /\ pc'[t] = "sleep"
                  /\ UNCHANGED <<gate, registry, event_queue, dispatcher>>
                  /\ \A u \in WorkerTypes \ {t} :
                        /\ pc'[u] = pc[u]
                        /\ resource_version'[u] = resource_version[u]
                        /\ exc'[u] = exc[u]
            /\ exc[t] = "Full" => pc'[t] \in {"sleep", "sync", "idle"}
            /\ (pc[t] \in {"sync_put", "watch_put"} /\ pc'[t] \notin {pc[t], "idle"}
                  /\ ~EnqueuedBy(t)) =>
                  (Fails(t) /\ exc'[t] = "Full")
       ]_vars

\* Both workers sleep after queue.Full while the handler still runs.
C9_Witness ==
    /\ \A t \in WorkerTypes : exc[t] = "Full" /\ pc[t] = "sleep"
    /\ dpc = "handler"
    /\ WorkersRun

\* C10: the queue never holds more than MAX_QUEUE_SIZE updates; it grows by
\* one update at a time and only when it is not full; a put that times out
\* found it full, adds nothing and fails the worker's iteration.
C10_QueueBounded ==
    /\ [](Len(event_queue) <= MAX_QUEUE_SIZE)
    /\ [][/\ Len(event_queue') > Len(event_queue) =>
                /\ ~QueueFull
                /\ Len(event_queue') = Len(event_queue) + 1
          /\ \A t \in WorkerTypes :
                (pc[t] \in {"sync_put", "watch_put"} /\ Fails(t)) =>
                    /\ QueueFull
                    /\ event_queue' = event_queue
                    /\ pc'[t] = "sleep"
       ]_vars

\* The queue is full and both workers are blocked in put.
C10_Witness ==
    /\ Len(event_queue) = MAX_QUEUE_SIZE
    /\ pc[RESOURCE_TYPE_POD] = "sync_put"
    /\ pc[RESOURCE_TYPE_NAMESPACE] = "watch_put"

\* C11: updates are handled in the order they were put, whichever worker put
\* them: a put adds at the tail of the queue and leaves the updates before it
\* in place, read_updates takes the update at the head, the handler it calls
\* is called for that update, and nothing else changes the queue short of the
\* exit of the process.
C11_FifoDispatch ==
    [][\/ event_queue' = event_queue
       \/ /\ Len(event_queue') = Len(event_queue) + 1
          /\ SubSeq(event_queue', 1, Len(event_queue)) = event_queue
       \/ /\ event_queue # <<>>
          /\ event_queue' = Tail(event_queue)
          /\ dpc = "get"
          /\ dpc' = "handler" => update' = Head(event_queue)
       \/ /\ ~Alive(Self)'
          /\ event_queue' = <<>>
    ]_vars

\* The handler runs for the update of namespace "a", which was put first; the
\* two updates of the pods, put after it, wait in the order they were put.
C11_Witness ==
    /\ dpc = "handler"
    /\ update = <<TYPE_MODIFIED, RESOURCE_TYPE_NAMESPACE, Doc(RESOURCE_TYPE_NAMESPACE, "a", 1)>>
    /\ event_queue = << <<TYPE_ADDED, RESOURCE_TYPE_POD, Doc(RESOURCE_TYPE_POD, "a", 1)>>,
                        <<TYPE_DELETED, RESOURCE_TYPE_POD, Doc(RESOURCE_TYPE_POD, "b", 2)>> >>

\* C12: a worker puts its updates in the order the API server delivered the
\* resources: the list items one by one in list order, then, with the list
\* step over, the lines of the stream; a line is put, or fails the iteration,
\* before the next line is read, and the update that waits in a blocked put is
\* the one that is put.
C12_SessionOrder ==
    [][\A t \in WorkerTypes :
        /\ EnqueuedBy(t) =>
              \/ /\ pc[t] = "sync_put"
                 /\ Enqueued = SyncUpdate(t, resources[t][idx[t] + 1])
                 /\ \/ pc'[t] = "sync_put" /\ idx'[t] = idx[t] + 1
                                          /\ resources'[t] = resources[t]
                    \/ pc'[t] = "watch_open" /\ idx[t] + 1 = Len(resources[t])
              \/ /\ pc[t] = "watch_put"
                 /\ Enqueued = wupdate[t]
                 /\ pc'[t] = "watch_read"
              \/ /\ pc[t] = "watch_read"
                 /\ \E line \in WatchLines(t) : Enqueued = WatchUpdate(line[1], line[2])
                 /\ pc'[t] = "watch_read"
        /\ (pc[t] = "sync_put" /\ pc'[t] = "sync_put" /\ ~EnqueuedBy(t)) =>
              (idx'[t] = idx[t] /\ resources'[t] = resources[t])
        /\ (pc[t] = "watch_put" /\ pc'[t] = "watch_put") =>
              (wupdate'[t] = wupdate[t] /\ ~EnqueuedBy(t))
        /\ (pc[t] \in WatchPhase /\ pc'[t] \notin WatchPhase) => pc'[t] \in {"sleep", "idle"}
    ]_vars

\* The list of pods returned b then a and the stream then told of pod "a": the
\* handler runs for b while the listed a and the streamed a wait in that order.
C12_Witness ==
    /\ dpc = "handler"
    /\ update = <<TYPE_MODIFIED, RESOURCE_TYPE_POD, Doc(RESOURCE_TYPE_POD, "b", 2)>>
    /\ event_queue = << <<TYPE_MODIFIED, RESOURCE_TYPE_POD, Doc(RESOURCE_TYPE_POD, "a", 1)>>,
                        <<TYPE_ADDED, RESOURCE_TYPE_POD, Doc(RESOURCE_TYPE_POD, "a", 1)>> >>
    /\ pc[RESOURCE_TYPE_POD] = "watch_read"

\* read_updates takes an update from the queue in this step.
Dequeues == dpc = "get" /\ dpc' \in {"handler", "task_done"}

\* C13: an update whose (resource type, event type) has no handler is dropped:
\* the warning is logged, no handler call begins, no exception leaves
\* read_updates, and after task_done the loop is back at get, where the next
\* update is taken.
C13_UnregisteredDropped ==
    /\ [](dlog = "No handlers" => (dpc = "task_done" /\ running = 0 /\ WorkersRun))
    /\ [][/\ (/\ Dequeues
               /\ "name" \in DOMAIN Head(event_queue)[3]
               /\ <<Head(event_queue)[2], Head(event_queue)[1]>> \notin DOMAIN handlers) =>
                  /\ dpc' = "task_done"
                  /\ dlog' = "No handlers"
                  /\ running' = 0
                  /\ event_queue' = Tail(event_queue)
          /\ dlog = "No handlers" =>
                  \/ UNCHANGED <<dpc, dlog, running>>
                  \/ dpc' = "get" /\ WorkersRun' /\ event_queue' = event_queue
                  \/ mainpc'[Self] = "exited"
          /\ (dpc = "get" /\ dlog' = "No handlers") =>
                  <<Head(event_queue)[2], Head(event_queue)[1]>> \notin DOMAIN handlers
       ]_vars

\* The BOOKMARK line of the stream of namespaces has been taken from the queue
\* and dropped; the update of a pod put after it is next.
C13_Witness ==
    /\ dlog = "No handlers"
    /\ dpc = "task_done"
    /\ event_queue # <<>>
    /\ Head(event_queue)[2] = RESOURCE_TYPE_POD

\* C14: an update whose resource has no metadata.name raises KeyError in
\* _process_update before any handler is looked up; read_updates catches it
\* and logs the update as invalid; no handler call begins, no exception leaves
\* read_updates, and after task_done the loop is back at get.
C14_MalformedIsolated ==
    /\ [](dlog = "Invalid update" => (dpc = "task_done" /\ running = 0 /\ WorkersRun))
    /\ [][/\ (Dequeues /\ "name" \notin DOMAIN Head(event_queue)[3]) =>
                  /\ dpc' = "task_done"
                  /\ dlog' = "Invalid update"
                  /\ running' = 0
                  /\ event_queue' = Tail(event_queue)
          /\ dlog = "Invalid update" =>
                  \/ UNCHANGED <<dpc, dlog, running>>
                  \/ dpc' = "get" /\ WorkersRun' /\ event_queue' = event_queue
                  \/ mainpc'[Self] = "exited"
          /\ (dpc = "get" /\ dlog' = "Invalid update") =>
                  "name" \notin DOMAIN Head(event_queue)[3]
       ]_vars

\* The list of namespaces carried an item without name: its update has been
\* taken from the queue and logged as invalid; the update of pod "b", put
\* after it, is next.
C14_Witness ==
    /\ dlog = "Invalid update"
    /\ dpc = "task_done"
    /\ event_queue # <<>>
    /\ Head(event_queue) = <<TYPE_MODIFIED, RESOURCE_TYPE_POD, Doc(RESOURCE_TYPE_POD, "b", 2)>>

\* C15: a KeyError raised by the handler is caught in _process_update and
\* logged with the resource; the call is over, the update is not put back in
\* the queue, no exception leaves read_updates, and after task_done the loop
\* is back at get.
C15_HandlerKeyErrorCaught ==
    /\ [](dlog = "Invalid resource" => (dpc = "task_done" /\ running = 0 /\ WorkersRun))
    /\ [][/\ (dlog # "Invalid resource" /\ dlog' = "Invalid resource") =>
                  /\ dpc = "handler"
                  /\ running = 1
                  /\ update' = None
                  /\ event_queue' = event_queue
          /\ dlog = "Invalid resource" =>
                  \/ UNCHANGED <<dpc, dlog, running>>
                  \/ dpc' = "get" /\ WorkersRun' /\ event_queue' = event_queue
                  \/ mainpc'[Self] = "exited"
       ]_vars

\* The handler has raised KeyError, which is logged; two more updates wait.
C15_Witness ==
    /\ dlog = "Invalid resource"
    /\ dpc = "task_done"
    /\ Len(event_queue) = 2

\* C16: an exception of the handler other than KeyError is caught nowhere: it
\* passes the finally clause of read_updates and leaves run(); the process
\* ends with the updates still queued discarded, and a process that has ended
\* takes no update and calls no handler again.
C16_HandlerExceptionFatal ==
    /\ [](dpc \in {"task_done_raise", "raise"} => (running = 0 /\ WorkersRun))
    /\ [](~Alive(Self) => (dpc = "idle" /\ running = 0 /\ event_queue = <<>>))
    /\ [][/\ (dpc # "task_done_raise" /\ dpc' = "task_done_raise") => dpc = "handler"
          /\ dpc \in {"task_done_raise", "raise"} =>
                  \/ dpc' \in {dpc, "raise"} /\ running' = 0
                  \/ ~Alive(Self)'
          /\ ~Alive(Self) => UNCHANGED <<mainpc, engine>>
       ]_vars

\* The handler has raised an exception that is on its way out of read_updates
\* while two updates wait in the queue.
C16_Witness ==
    /\ dpc = "task_done_raise"
    /\ Len(event_queue) = 2

\* C17: every update read_updates takes is acknowledged by task_done exactly
\* once, after its processing and before the next get, whatever the outcome:
\* the puts not yet acknowledged are the updates still queued and, between a
\* get and its task_done, the update in hand; none is outstanding when
\* read_updates stands at get or when an exception leaves it.
C17_AcknowledgedOnce ==
    unfinished_tasks =
        Len(event_queue) + (IF dpc \in {"handler", "task_done", "task_done_raise"}
                            THEN 1 ELSE 0)

\* An exception of the handler is leaving read_updates: its update has been
\* acknowledged, the two updates still queued have not.
C17_Witness ==
    /\ dpc = "raise"
    /\ Len(event_queue) = 2
    /\ unfinished_tasks = 2

\* The workers or read_updates of this process have been started.
EngineStarted ==
    \/ \E t \in WorkerTypes : pc[t] # "idle"
    \/ dpc # "idle"
    \/ event_queue # <<>>
    \/ unfinished_tasks > 0
    \/ running > 0

\* C18: with leader election enabled, run() is past _wait_for_leadership, a
\* worker runs, an update is queued or a handler is called only if the last
\* poll of the election endpoint by this instance answered its own name.
C18_NoWorkBeforeElected ==
    leader_elect =>
        /\ mainpc[Self] \in {"start_leader_thread", "initialize", "start_workers",
                             "read_updates"} => polled[Self] = Self
        /\ EngineStarted => (polled[Self] = Self /\ mainpc[Self] = "read_updates")

\* Elected, the instance handles an update while two more are queued.
C18_Witness ==
    /\ leader_elect
    /\ polled[Self] = Self
    /\ running = 1
    /\ Len(event_queue) = 2

\* C19, as claimed: while an instance awaits leadership, a poll that fails,
\* in whatever way, leaves it waiting: the process does not end and does not
\* go on as leader.
C19_FailedPollNeverTerminates ==
    [][\A i \in Instances :
        (mainpc[i] = "wait_for_leadership" /\ polled'[i] \in PollErrors) =>
            mainpc'[i] = "wait_for_leadership"
    ]_vars

\* C19, amended: while an instance awaits leadership, a poll that fails with
\* a ConnectionError, like one that answers another name, leaves it waiting,
\* with no leadership watcher started, to poll again; the wait ends only by a
\* poll that answers the instance's own name, or by a poll that raises any
\* other exception, which leaves run() and ends the process.
C19_ConnectionErrorRetried ==
    [][\A i \in Instances :
        mainpc[i] = "wait_for_leadership" =>
            /\ polled'[i] \in {"ConnectionError"} \cup (Instances \ {i}) =>
                  (mainpc'[i] = "wait_for_leadership" /\ lpc'[i] = "none")
            /\ mainpc'[i] # "wait_for_leadership" =>
                  \/ mainpc'[i] = "start_leader_thread" /\ polled'[i] = i
                  \/ mainpc'[i] = "uncaught" /\ polled'[i] = "Exception"
    ]_vars

\* h1 still awaits leadership after a poll that failed with a ConnectionError,
\* while h2, elected, processes events.
C19_Witness ==
    /\ mainpc["h1"] = "wait_for_leadership"
    /\ polled["h1"] = "ConnectionError"
    /\ Active("h2")

\* C20: once an instance runs its leadership watcher, every poll it has made
\* since answered its own name: the first poll that answers another name or
\* raises an exception ends the process by os._exit in that very step; and an
\* instance whose watcher runs while the endpoint names another leader ends,
\* unless the endpoint names it again.
C20_LeadershipLossTerminates ==
    /\ [](\A i \in Instances : lpc[i] = "poll" => (Alive(i) /\ polled[i] = i))
    /\ [][\A i \in Instances :
            (lpc[i] = "poll" /\ polled'[i] # polled[i]) =>
                (mainpc'[i] = "exited" /\ lpc'[i] = "none")
       ]_vars
    /\ \A i \in Instances :
          (lpc[i] = "poll" /\ leader # i) ~> (~Alive(i) \/ leader = i)

\* h1 had acquired leadership; the endpoint then elected h2, and the poll of
\* h1's watcher that was answered h2 ended h1; h2 processes events.
C20_Witness ==
    /\ mainpc["h1"] = "exited"
    /\ polled["h1"] = "h2"
    /\ leader = "h2"
    /\ Active("h2")

\* The leadership state of instance i: NotLeader until _wait_for_leadership
\* returns, Leader from then on (at once when election is disabled),
\* Terminated once the process has ended.
LeadershipState(i) ==
    CASE mainpc[i] \in {"exited", "uncaught"} -> "Terminated"
      [] leader_elect /\ mainpc[i] \in {"run", "wait_for_leadership"} -> "NotLeader"
      [] OTHER -> "Leader"

\* A terminated process does nothing: no thread of it is left, its queue is
\* gone, and no step changes its engine or its place in run().
TerminatedIsAbsorbing ==
    /\ [](~Alive(Self) =>
            /\ lpc[Self] = "none"
            /\ dpc = "idle"
            /\ running = 0
            /\ event_queue = <<>>
            /\ \A t \in WorkerTypes : pc[t] = "idle")
    /\ [][~Alive(Self) => UNCHANGED <<mainpc, lpc, engine>>]_vars

\* C21, as claimed: the leadership state moves from NotLeader to Leader and
\* from Leader to Terminated only, and Terminated is absorbing.
C21_OnlyNotLeaderLeaderTerminated ==
    /\ [][LeadershipState(Self)' # LeadershipState(Self) =>
            <<LeadershipState(Self), LeadershipState(Self)'>> \in
                {<<"NotLeader", "Leader">>, <<"Leader", "Terminated">>}]_vars
    /\ TerminatedIsAbsorbing

\* C21, amended: the leadership state never moves backwards in the order
\* NotLeader, Leader, Terminated: a Leader never becomes NotLeader again and
\* Terminated is absorbing, with no enqueue, dequeue or handler call after it;
\* NotLeader moves to Leader by a poll that answers the instance's own name,
\* and to Terminated, without passing through Leader, by a poll that raises
\* an exception other than ConnectionError.
C21_LeadershipNeverGoesBack ==
    /\ [][LeadershipState(Self)' # LeadershipState(Self) =>
            \/ /\ LeadershipState(Self) = "NotLeader"
               /\ LeadershipState(Self)' = "Leader"
               /\ polled'[Self] = Self
            \/ /\ LeadershipState(Self) = "NotLeader"
               /\ LeadershipState(Self)' = "Terminated"
               /\ polled'[Self] = "Exception"
            \/ /\ LeadershipState(Self) = "Leader"
               /\ LeadershipState(Self)' = "Terminated"
       ]_vars
    /\ TerminatedIsAbsorbing

\* The instance was Leader; a poll of its watcher failed with a
\* ConnectionError, and the process has exited.
C21_Witness ==
    /\ LeadershipState(Self) = "Terminated"
    /\ mainpc[Self] = "exited"
    /\ polled[Self] = "ConnectionError"

\* C22: with leader election disabled, an instance never calls _is_leader and
\* never starts the leadership watcher; run() goes from its start straight to
\* initialize, start_workers and read_updates, and no answer of the election
\* endpoint, whoever it names, ends the process.
C22_ElectionDisabled ==
    ~leader_elect =>
        \A i \in Instances :
            /\ polled[i] = NoPoll
            /\ lpc[i] = "none"
            /\ mainpc[i] \in {"run", "initialize", "start_workers", "read_updates"}

\* With election disabled both instances process events, h1 with its workers
\* and read_updates started, while the endpoint names h2 the leader.
C22_Witness ==
    /\ ~leader_elect
    /\ leader = "h2"
    /\ Active("h1")
    /\ Active("h2")
    /\ dpc = "get"
    /\ \A t \in WorkerTypes : pc[t] = "sync"

\* C23: each resource type has at most one thread running _manage_resource:
\* exactly one while the process is in read_updates, none before start_workers
\* and none after the process has ended; a worker that has failed, sleeps or
\* lists again is that same thread.
C23_OneSessionPerType ==
    \A t \in WorkerTypes :
        /\ worker_threads[t] <= 1
        /\ WorkersRun => (worker_threads[t] = 1 /\ pc[t] # "idle")
        /\ ~WorkersRun => (worker_threads[t] = 0 /\ pc[t] = "idle")

\* The worker of pods lists again after a failure while the worker of
\* namespaces handles a failure of its own: still one thread for each.
C23_Witness ==
    /\ pc[RESOURCE_TYPE_POD] = "sync_put"
    /\ exc[RESOURCE_TYPE_NAMESPACE] = "ConnectionError"
    /\ resource_version[RESOURCE_TYPE_POD] = None
    /\ event_queue # <<>>
    /\ event_queue[1][1] = TYPE_DELETED
    /\ \A t \in WorkerTypes : worker_threads[t] = 1

\* C24: the process ends in three ways only: os._exit by the leadership
\* watcher, at a poll that answered another name or raised; an exception of
\* the poll, other than ConnectionError, leaving _wait_for_leadership; an
\* exception leaving read_updates. A failure in a worker, whatever was
\* raised, ends neither the process nor the worker: the thread stays, sleeps
\* and starts its loop again, and the step changes nothing outside the worker.
C24_TerminationCauses ==
    /\ [](WorkersRun => \A t \in WorkerTypes : pc[t] # "idle" /\ worker_threads[t] = 1)
    /\ [][/\ (Alive(Self) /\ ~Alive(Self)') =>
                \/ /\ mainpc'[Self] = "exited"
                   /\ lpc[Self] = "poll"
                   /\ polled'[Self] # Self
                \/ /\ mainpc'[Self] = "uncaught"
                   /\ mainpc[Self] = "wait_for_leadership"
                   /\ polled'[Self] = "Exception"
                \/ /\ mainpc'[Self] = "uncaught"
                   /\ dpc = "raise"
                   /\ polled'[Self] = polled[Self]
          /\ \A t \in WorkerTypes :
                Fails(t) =>
                    /\ pc'[t] = "sleep"
                    /\ UNCHANGED <<gate, registry, event_queue, unfinished_tasks, dispatcher>>
       ]_vars

\* Both workers have failed, one on a full queue and one on an exception no
\* named except clause catches; the process is alive, read_updates waits for
\* the next update and both threads sleep before their next list call.
C24_Witness ==
    /\ exc[RESOURCE_TYPE_POD] = "Exception"
    /\ exc[RESOURCE_TYPE_NAMESPACE] = "Full"
    /\ \A t \in WorkerTypes : pc[t] = "sleep" /\ worker_threads[t] = 1
    /\ dpc = "get"
    /\ Alive(Self)

\* C25: no update of type ERROR is ever in the queue, waiting in a put or
\* given to a handler. The ERROR line of a watch stream raises
\* KubernetesApiError in the step that reads it: nothing is enqueued, the
\* cursor is dropped and the worker sleeps; from the sleep it enqueues nothing
\* and goes nowhere but to the list call of _sync_resources.
C25_ErrorLineNeverEnqueued ==
    /\ [](/\ \A k \in 1..Len(event_queue) : event_queue[k][1] # TYPE_ERROR
          /\ update # None => update[1] # TYPE_ERROR
          /\ \A t \in WorkerTypes : wupdate[t] # None => wupdate[t][1] # TYPE_ERROR)
    /\ [][\A t \in WorkerTypes :
            /\ (pc[t] = "watch_read" /\ exc'[t] = "KubernetesApiError") =>
                  /\ event_queue' = event_queue
                  /\ pc'[t] = "sleep"
                  /\ wupdate'[t] = None
                  /\ resource_version'[t] = None
            /\ pc[t] = "sleep" =>
                  /\ ~EnqueuedBy(t)
                  /\ pc'[t] \in {"sleep", "sync", "idle"}
       ]_vars

\* The watch stream of pods yielded the lines of pod "a" and pod "b" and then
\* an ERROR line: the two updates are queued, the worker sleeps before its
\* resync, and no ERROR update exists.
C25_Witness ==
    /\ exc[RESOURCE_TYPE_POD] = "KubernetesApiError"
    /\ pc[RESOURCE_TYPE_POD] = "sleep"
    /\ event_queue = << <<TYPE_ADDED, RESOURCE_TYPE_POD, Doc(RESOURCE_TYPE_POD, "a", 1)>>,
                        <<TYPE_DELETED, RESOURCE_TYPE_POD, Doc(RESOURCE_TYPE_POD, "b", 2)>> >>

\* C26: the step in which read_updates takes an update removes it from the
\* queue, and begins at most one handler call, for that update; no handler
\* call begins in any other step; and from the handler call to the next get
\* read_updates puts nothing in the queue and calls no handler again, whether
\* the handler returned, raised KeyError or raised anything else.
C26_ConsumedOnce ==
    [][/\ Dequeues =>
            /\ event_queue' = Tail(event_queue)
            /\ running' \in {running, running + 1}
            /\ running' = running + 1 => update' = Head(event_queue)
       /\ running' > running => Dequeues
       /\ (dpc # "handler" /\ dpc' = "handler") => Dequeues
       /\ (dpc \in {"handler", "task_done", "task_done_raise", "raise"} /\ dpc' # dpc) =>
            /\ dpc' \in {"task_done", "task_done_raise", "raise", "get", "idle"}
            /\ event_queue' = event_queue \/ ~Alive(Self)'
    ]_vars

\* The handler of an update has returned and read_updates is about to
\* acknowledge it; the queue holds the two updates put after it.
C26_Witness ==
    /\ dlog = "Handled"
    /\ dpc = "task_done"
    /\ Len(event_queue) = 2
    /\ unfinished_tasks = 3

\* C28: a worker that has failed, with whatever exception and however often
\* before, comes to the list call of _sync_resources again, as long as the
\* process lives; until then it does nothing but sleep.
C28_SessionNeverStops ==
    /\ [][\A t \in WorkerTypes :
            /\ Fails(t) => pc'[t] = "sleep"
            /\ (pc[t] = "sleep" /\ pc'[t] # "sleep") => (pc'[t] = "sync" \/ ~Alive(Self)')
       ]_vars
    /\ \A t \in WorkerTypes :
          (exc[t] # NoExc) ~> (pc[t] = "sync" \/ ~Alive(Self))

\* The worker of pods is at its list call again after a failure, its cursor
\* gone, while the update of an earlier watch is still queued and the worker
\* of namespaces sleeps after a failure of its own.
C28_Witness ==
    /\ pc[RESOURCE_TYPE_POD] = "sync"
    /\ exc[RESOURCE_TYPE_POD] = NoExc
    /\ event_queue # <<>>
    /\ event_queue[1][1] = TYPE_ADDED
    /\ exc[RESOURCE_TYPE_NAMESPACE] = "Exception"
    /\ Alive(Self)

\* The update _sync_resources builds for resource r of type t is in the queue.
ListedQueued(t, r) ==
    \E k \in 1..Len(event_queue) : event_queue[k] = SyncUpdate(t, r)

\* The handler registered for MODIFIED updates of type t is running for r.
ModifiedHandled(t, r) ==
    /\ dpc = "handler"
    /\ update = SyncUpdate(t, r)
    /\ HasHandler(t, TYPE_MODIFIED)

\* C27, as claimed: every resource a list call has just returned is passed
\* to the MODIFIED handler of its type, unless the process ends first.
C27_EveryListedResourceHandled ==
    \A t \in WorkerTypes : \A r \in Docs(t) :
        (/\ pc[t] = "sync_put"
         /\ idx[t] = 0
         /\ \E k \in 1..Len(resources[t]) : resources[t][k] = r)
        ~> (ModifiedHandled(t, r) \/ ~Alive(Self))

\* C27, amended: every resource a list call returned whose put into the
\* queue returned is passed to the MODIFIED handler of its type, unless the
\* process ends first, at the first list as at every later one: the put of a
\* listed resource enqueues its MODIFIED update, read_updates begins the
\* handler call of each such update in the step that takes it, and each such
\* update in the queue comes to its handler call. The resources at and after
\* a put that times out are not enqueued by that list call.
C27_EnqueuedListedResourceHandled ==
    /\ [][/\ \A t \in WorkerTypes :
                (pc[t] = "sync_put" /\ EnqueuedBy(t)) =>
                    Enqueued = <<TYPE_MODIFIED, t, resources[t][idx[t] + 1]>>
          /\ \A t \in WorkerTypes : \A r \in Docs(t) :
                (Dequeues /\ Head(event_queue) = SyncUpdate(t, r)) =>
                    ModifiedHandled(t, r)'
       ]_vars
    /\ \A t \in WorkerTypes : \A r \in Docs(t) :
          ListedQueued(t, r) ~> (ModifiedHandled(t, r) \/ ~Alive(Self))

\* After a watch of pods that yielded the DELETED line of pod "b", now in its
\* handler, the worker has failed and listed again after the failure of its
\* watch: both pods of the new list are queued, and the watch is to be opened.
C27_Witness ==
    /\ dpc = "handler"
    /\ update = <<TYPE_DELETED, RESOURCE_TYPE_POD, Doc(RESOURCE_TYPE_POD, "b", 2)>>
    /\ ListedQueued(RESOURCE_TYPE_POD, Doc(RESOURCE_TYPE_POD, "a", 1))
    /\ ListedQueued(RESOURCE_TYPE_POD, Doc(RESOURCE_TYPE_POD, "b", 2))
    /\ pc[RESOURCE_TYPE_POD] = "watch_open"

\* C29: the registry is, in every state from the start of run() on, the one
\* __init__ built: no step of read_updates, of a worker or of the leadership
\* gate adds, replaces or removes the handler of a pair.
C29_RegistryUnchanged == handlers = InitHandlers

\* read_updates has just looked up a pair that has no handler, after a poll
\* of the gate and a failure of the worker of pods: the registry is as built,
\* without an entry for the pair.
C29_Witness ==
    /\ dlog = "No handlers"
    /\ polled[Self] = Self
    /\ exc[RESOURCE_TYPE_POD] = "KubernetesApiError"
    /\ ~HasHandler(RESOURCE_TYPE_NAMESPACE, TYPE_BOOKMARK)
    /\ DOMAIN handlers = DOMAIN InitHandlers

RECURSIVE LastRegistered(_, _, _)
\* The handler of the last call in cs made for exactly the pair
\* (resource_type, event_type), found by reading cs backwards; "KeyError" when
\* no call was made for the pair.
LastRegistered(cs, resource_type, event_type) ==
    IF cs = <<>>
    THEN "KeyError"
    ELSE LET c == cs[Len(cs)]
         IN  IF c[1] = resource_type /\ c[2] = event_type
             THEN c[3]
             ELSE LastRegistered(SubSeq(cs, 1, Len(cs) - 1), resource_type, event_type)

\* The pairs looked up: those that can be registered, and pairs with a type or
\* an event that never is.
LookupPairs ==
    (RegistryTypes \cup {RESOURCE_TYPE_NETWORK_POLICY})
        \X (RegistryEvents \cup {TYPE_MODIFIED})

\* C30: after any sequence of add_handler calls, get_handler of a pair gives
\* the handler of the last call made for exactly that pair, and KeyError when
\* no call was made for it; and an add_handler call changes the entry of its
\* own pair only: every other pair keeps its handler, or stays without one.
C30_LookupReturnsLastRegistered ==
    /\ [](\A p \in LookupPairs : lookup(p[1], p[2]) = LastRegistered(calls, p[1], p[2]))
    /\ [][Len(calls') = Len(calls) + 1 =>
            LET c == calls'[Len(calls')]
            IN  /\ handlers'[<<c[1], c[2]>>] = c[3]
                /\ \A p \in LookupPairs \ {<<c[1], c[2]>>} :
                      /\ (p \in DOMAIN handlers') = (p \in DOMAIN handlers)
                      /\ p \in DOMAIN handlers => handlers'[p] = handlers[p]
       ]_vars

\* The handler of DELETED pods was registered, then the handler of ADDED pods,
\* then another handler of DELETED pods: the lookup of (Pod, DELETED) gives the
\* later one, (Pod, ADDED) is untouched and (Namespace, ADDED) raises KeyError.
C30_Witness ==
    /\ calls = << <<RESOURCE_TYPE_POD, TYPE_DELETED, "add_update_pod">>,
                  <<RESOURCE_TYPE_POD, TYPE_ADDED, "add_update_pod">>,
                  <<RESOURCE_TYPE_POD, TYPE_DELETED, "delete_pod">> >>
    /\ lookup(RESOURCE_TYPE_POD, TYPE_DELETED) = "delete_pod"
    /\ lookup(RESOURCE_TYPE_POD, TYPE_ADDED) = "add_update_pod"
    /\ lookup(RESOURCE_TYPE_NAMESPACE, TYPE_ADDED) = "KeyError"

\* C31: a list response without cursor is no failure: when the last put of
\* such a list returns, the worker goes on to the watch with no cursor, and
\* the streaming call it then makes carries no resourceVersion parameter; a
\* failure of that watch sends the worker to its sleep, after which its next
\* call is the list call.
C31_CursorlessListThenWatch ==
    /\ [](\A t \in WorkerTypes :
            (pc[t] = "watch_open" /\ resource_version[t] = None) => WatchQuery(t) = <<>>)
    /\ [][\A t \in WorkerTypes :
            /\ ( /\ pc[t] = "sync_put"
                 /\ sync_rv[t] = None
                 /\ idx[t] + 1 = Len(resources[t])
                 /\ EnqueuedBy(t) ) =>
                    /\ pc'[t] = "watch_open"
                    /\ resource_version'[t] = None
                    /\ exc'[t] = NoExc
            /\ (pc[t] = "watch_open" /\ resource_version[t] = None /\ pc'[t] # "watch_open") =>
                    \/ pc'[t] = "watch_read" /\ resource_version'[t] = None /\ exc'[t] = NoExc
                    \/ pc'[t] = "sleep" /\ Fails(t)
                    \/ pc'[t] = "idle"
            /\ (pc[t] \in WatchPhase /\ resource_version[t] = None /\ Fails(t)) =>
                    pc'[t] = "sleep"
            /\ (pc[t] = "sleep" /\ pc'[t] \notin {"sleep", "idle"}) => pc'[t] = "sync"
       ]_vars

\* The list of pods carried both pods and no cursor; both were put, the
\* streaming call was made without cursor and answered, and the worker reads
\* the stream while the handler of the first pod runs.
C31_Witness ==
    /\ pc[RESOURCE_TYPE_POD] = "watch_read"
    /\ resource_version[RESOURCE_TYPE_POD] = None
    /\ dpc = "handler"
    /\ update[2] = RESOURCE_TYPE_POD
    /\ Len(event_queue) = 1
    /\ event_queue[1][2] = RESOURCE_TYPE_POD

\* The state of the worker thread of t.
Session(t) == <<pc[t], resources[t], idx[t], sync_rv[t], resource_version[t], wupdate[t], exc[t]>>

\* C32: a response that is not well formed (a list body without items, a
\* line that does not parse, a document without type, object, kind, name or
\* resourceVersion) raises KeyError or ValueError in the list or watch step
\* of the worker, which the last except clause of _manage_resource catches:
\* the worker sleeps and then lists again; the step leaves the main thread,
\* read_updates and the other workers where they were; and a document without
\* resourceVersion, which fails after its put, is never passed over.
C32_MalformedIsRecoverable ==
    /\ [](\A t \in WorkerTypes :
            exc[t] = "Exception" => (pc[t] = "sleep" /\ WorkersRun /\ Alive(Self)))
    /\ [][\A t \in WorkerTypes :
            /\ (Fails(t) /\ exc'[t] = "Exception") =>
                  /\ pc[t] \in {"sync", "watch_read", "watch_put"}
                  /\ pc'[t] = "sleep"
                  /\ mainpc' = mainpc /\ lpc' = lpc
                  /\ worker_threads' = worker_threads
                  /\ dispatcher' = dispatcher
                  /\ \A o \in WorkerTypes \ {t} : Session(o)' = Session(o)
                  /\ \/ event_queue' = event_queue
                     \/ /\ Len(event_queue') = Len(event_queue) + 1
                        /\ event_queue' = Append(event_queue, Enqueued)
                        /\ ~HasCursor(Enqueued[3])
            /\ (pc[t] = "sleep" /\ exc[t] = "Exception" /\ pc'[t] # "sleep") =>
                  \/ pc'[t] = "sync" /\ exc'[t] = NoExc
                  \/ pc'[t] = "idle" /\ ~Alive(Self)'
       ]_vars
    /\ [][(Len(event_queue') > Len(event_queue) /\ ~HasCursor(Enqueued[3])) =>
            \E t \in WorkerTypes :
                /\ pc[t] \in {"watch_read", "watch_put"}
                /\ Fails(t) /\ exc'[t] = "Exception"
                /\ pc'[t] = "sleep"
       ]_vars

\* The stream of namespaces yielded a change of namespace "a" without
\* resourceVersion: the worker of namespaces sleeps after the KeyError, the
\* update it had put is with its handler, and the worker of pods reads its
\* stream.
C32_Witness ==
    /\ exc[RESOURCE_TYPE_NAMESPACE] = "Exception"
    /\ dpc = "handler"
    /\ update = <<TYPE_MODIFIED, RESOURCE_TYPE_NAMESPACE, Cursorless(RESOURCE_TYPE_NAMESPACE)>>
    /\ pc[RESOURCE_TYPE_POD] = "watch_read"

\* The worker of t puts an update in the queue in this step, whatever type the
\* update carries: the resourceVersion of its resource is a token of
\* collection t, and a resource without one makes the worker fail in the step.
ProducedBy(t) ==
    /\ Len(event_queue') = Len(event_queue) + 1
    /\ event_queue' = Append(event_queue, Enqueued)
    /\ IF HasCursor(Enqueued[3])
       THEN Enqueued[3].resourceVersion[1] = t
       ELSE Fails(t)

\* C33 as claimed: every update the worker of t puts in the queue carries
\* resource type t, in the list step and in the watch step.
C33_EventsCarrySessionType ==
    [][\A t \in WorkerTypes : ProducedBy(t) => Enqueued[2] = t]_vars

\* C33, amended: an update the worker of t puts in the list step carries
\* resource type t; an update it puts in the watch step carries the kind its
\* document names, which the worker does not compare with t; and the handler
\* called for an update is one registered for the type the update carries.
C33_EventsCarryListTypeOrDocumentKind ==
    /\ [][\A t \in WorkerTypes :
            ProducedBy(t) =>
                \/ pc[t] = "sync_put" /\ Enqueued[2] = t
                \/ pc[t] \in {"watch_read", "watch_put"} /\ Enqueued[2] = Enqueued[3].kind
       ]_vars
    /\ [](dpc = "handler" =>
            \E k \in DOMAIN handlers : k[1] = update[2] /\ called = handlers[k])

\* The stream of pods yielded an ADDED line whose object is of kind Namespace:
\* the update was put with resource type Namespace, the handler of added
\* namespaces is called for it, and the worker of pods reads on from the
\* resourceVersion of that object.
C33_Witness ==
    /\ dpc = "handler"
    /\ update[2] = RESOURCE_TYPE_NAMESPACE
    /\ update[1] = TYPE_ADDED
    /\ HasCursor(update[3]) /\ update[3].resourceVersion = <<RESOURCE_TYPE_POD, 1>>
    /\ called = "add_update_namespace"
    /\ pc[RESOURCE_TYPE_POD] = "watch_read"
    /\ resource_version[RESOURCE_TYPE_POD] = <<RESOURCE_TYPE_POD, 1>>

\* The watch of t has read a DELETED line of resource r and is blocked in its
\* put, the queue being full.
DeletedBlocked(t, r) ==
    pc[t] = "watch_put" /\ wupdate[t] = <<TYPE_DELETED, t, r>>

\* The DELETED update of resource r of type t is in the queue.
DeletedQueued(t, r) ==
    \E k \in 1..Len(event_queue) : event_queue[k] = <<TYPE_DELETED, t, r>>

\* The handler registered for DELETED updates of type t is called for r.
DeletedHandled(t, r) ==
    /\ dpc = "handler"
    /\ update = <<TYPE_DELETED, t, r>>
    /\ called = LastRegistered(calls, t, TYPE_DELETED)

\* C34 as claimed: every DELETED line a watch has read comes to the DELETED
\* handler of its type unless the process ends first, whether its put found
\* room at once or the queue was full when the line was read.
C34_EveryDeletedLineHandled ==
    \A t \in WorkerTypes : \A r \in Docs(t) :
        (DeletedBlocked(t, r) \/ DeletedQueued(t, r))
        ~> (DeletedHandled(t, r) \/ ~Alive(Self))

\* C34, amended: every DELETED line a watch has read and whose put returned
\* comes to the DELETED handler of its type unless the process ends first.
\* When the queue is full as the line is read the put blocks; if it times out
\* the update is not put, the worker fails with queue.Full and lists again,
\* and what a list puts is MODIFIED updates only, so the deletion is not
\* reported again.
C34_EnqueuedDeletedLineHandled ==
    /\ [][\A t \in WorkerTypes :
            /\ \A r \in Docs(t) :
                  (DeletedBlocked(t, r) /\ ~DeletedBlocked(t, r)') =>
                      \/ event_queue' = Append(event_queue, <<TYPE_DELETED, t, r>>)
                      \/ /\ Fails(t) /\ exc'[t] = "Full" /\ pc'[t] = "sleep"
                         /\ event_queue' = event_queue
                      \/ ~Alive(Self)'
            /\ \A r \in Docs(t) :
                  (Dequeues /\ Head(event_queue) = <<TYPE_DELETED, t, r>>) =>
                      DeletedHandled(t, r)'
            /\ (pc[t] \in {"sync", "sync_put"} /\ ProducedBy(t)) =>
                  Enqueued[1] = TYPE_MODIFIED
       ]_vars
    /\ \A t \in WorkerTypes : \A r \in Docs(t) :
          DeletedQueued(t, r) ~> (DeletedHandled(t, r) \/ ~Alive(Self))

\* The queue is full of the pods of the last list, the first of them with its
\* handler, and the watch of pods, which has read the DELETED line of pod "b",
\* is blocked in its put.
C34_Witness ==
    /\ DeletedBlocked(RESOURCE_TYPE_POD, Doc(RESOURCE_TYPE_POD, "b", 2))
    /\ Len(event_queue) = MAX_QUEUE_SIZE
    /\ \A k \in 1..Len(event_queue) : event_queue[k][1] = TYPE_MODIFIED
    /\ dpc = "handler"

\* C35: in the watch step the cursor takes a new value only in the step in
\* which the put of the update returns, and the value is the resourceVersion
\* of the resource just enqueued. A line read while the queue is full leaves
\* cursor and queue as they are while the put is blocked; when the put times
\* out, or when a line is refused before its put, nothing is added to the
\* queue and the cursor does not move to that line: the worker is left with
\* the cursor it had, which the failure then drops with the frame.
C35_CursorAdvancesAfterPut ==
    [][\A t \in WorkerTypes :
        /\ ( /\ pc[t] \in {"watch_read", "watch_put"}
             /\ resource_version'[t] \notin {resource_version[t], None} ) =>
                /\ Len(event_queue') = Len(event_queue) + 1
                /\ event_queue' = Append(event_queue, Enqueued)
                /\ Enqueued[3].resourceVersion = resource_version'[t]
                /\ ~Fails(t)
        /\ (pc[t] = "watch_read" /\ pc'[t] = "watch_put") =>
                /\ resource_version'[t] = resource_version[t]
                /\ event_queue' = event_queue
                /\ wupdate'[t] # None
        /\ (pc[t] \in {"watch_read", "watch_put"} /\ Fails(t)) =>
                /\ resource_version'[t] \in {resource_version[t], None}
                /\ event_queue' = event_queue
                /\ wupdate'[t] = None
    ]_vars

\* The watch of pods has put the ADDED line of pod "a" and holds its cursor;
\* it has then read the DELETED line of pod "b" with the queue full, and is
\* blocked in the put with the cursor of pod "a" still.
C35_Witness ==
    /\ pc[RESOURCE_TYPE_POD] = "watch_put"
    /\ wupdate[RESOURCE_TYPE_POD] =
          <<TYPE_DELETED, RESOURCE_TYPE_POD, Doc(RESOURCE_TYPE_POD, "b", 2)>>
    /\ resource_version[RESOURCE_TYPE_POD] = <<RESOURCE_TYPE_POD, 1>>
    /\ QueueFull
    /\ event_queue[Len(event_queue)] =
          <<TYPE_ADDED, RESOURCE_TYPE_POD, Doc(RESOURCE_TYPE_POD, "a", 1)>>

\* C36: the steps by which the worker of t fails, sleeps and lists again (the
\* exception reaching _manage_resource, the end of the sleep, the list call
\* and its puts) leave every other worker with its position, its cursor and
\* its other locals; they leave the registry as it is; and they take nothing
\* from the queue and change no update in it: the queue is as before, or as
\* before with one update of the new list at its tail.
C36_FailureIsLocal ==
    [][\A t \in WorkerTypes :
        ( /\ Fails(t) \/ pc[t] \in {"sleep", "sync", "sync_put"}
          /\ Session(t)' # Session(t)
          /\ Alive(Self)' ) =>
            /\ \A o \in WorkerTypes \ {t} : Session(o)' = Session(o)
            /\ handlers' = handlers
            /\ \/ event_queue' = event_queue
               \/ /\ pc[t] = "sync_put"
                  /\ Len(event_queue') = Len(event_queue) + 1
                  /\ SubSeq(event_queue', 1, Len(event_queue)) = event_queue
                  /\ Enqueued = SyncUpdate(t, resources[t][idx[t] + 1])
            /\ Fails(t) => event_queue' = event_queue
    ]_vars

\* The worker of pods has failed and sleeps; the worker of namespaces, which
\* had put a line of its stream and holds its cursor, is blocked in the put of
\* the next line, the queue being full.
C36_Witness ==
    /\ pc[RESOURCE_TYPE_POD] = "sleep"
    /\ exc[RESOURCE_TYPE_POD] \in {"ConnectionError", "KubernetesApiError"}
    /\ pc[RESOURCE_TYPE_NAMESPACE] = "watch_put"
    /\ resource_version[RESOURCE_TYPE_NAMESPACE] = <<RESOURCE_TYPE_NAMESPACE, 1>>
    /\ QueueFull
    /\ \E k \in 1..Len(event_queue) : event_queue[k][1] = TYPE_BOOKMARK

\* C37: a handler is called only in the step in which read_updates takes an
\* update from the queue: the queue was not empty, the update taken is the one
\* at its head, the handler called is the one add_handler registered last for
\* the (resource type, event type) of that update, and the update it is called
\* for is that update, resource included. While no call is running, none is
\* recorded; and nothing enters the queue but by the put of a worker in its
\* list or watch step.
C37_HandlerCallsComeFromQueue ==
    /\ [](IF dpc = "handler"
          THEN /\ update # None
               /\ called = LastRegistered(calls, update[2], update[1])
               /\ called # "KeyError"
               /\ running = 1
          ELSE called = NoHandler /\ running = 0)
    /\ [][/\ (called' # called /\ called' # NoHandler) =>
                /\ dpc = "get" /\ dpc' = "handler"
                /\ event_queue # <<>>
                /\ event_queue' = Tail(event_queue)
                /\ update' = Head(event_queue)
                /\ called' = LastRegistered(calls, Head(event_queue)[2], Head(event_queue)[1])
          /\ Len(event_queue') > Len(event_queue) =>
                \E t \in WorkerTypes :
                    /\ pc[t] \in {"sync_put", "watch_read", "watch_put"}
                    /\ ProducedBy(t)
       ]_vars

\* The worker of pods has put the DELETED line of pod "b" and nothing else is
\* queued: read_updates has taken it and delete_pod is called for it, with
\* the resource of the line.
C37_Witness ==
    /\ dpc = "handler"
    /\ called = "delete_pod"
    /\ update = <<TYPE_DELETED, RESOURCE_TYPE_POD, Doc(RESOURCE_TYPE_POD, "b", 2)>>
    /\ event_queue = <<>>
    /\ resource_version[RESOURCE_TYPE_POD] = <<RESOURCE_TYPE_POD, 2>>

====
